---- MODULE Spec2Model ----
(***************************************************************************)
(* Model of the research / web-search pipeline of Discord_Agentic_Bot:     *)
(*   searxng_client.py          SearXNGClient.search, _format_results,     *)
(*                              scrape_url, search_and_scrape              *)
(*   parallel_research_agent.py searxng_search, run_and_collect_final_     *)
(*                              response, run_parallel_research            *)
(*   web_search_agent.py        WebSearchAgent.search                      *)
(*   discord_bot.py             the commands ask, force_search,            *)
(*                              force_research, force_knowledge,           *)
(*                              direct_chat and clear_memory,              *)
(*                              QueryDispatcher.dispatch,                  *)
(*                              send_chunked_message                       *)
(*   shared_utils.py            get_conversation_context                   *)
(*                                                                         *)
(* Generated text is a sequence of tokens: "txt" (prose without braces),   *)
(* "fo" (the fence opener ```json), "fc" (the fence closer ```), "lb" ({), *)
(* "rb" (}), "bad" (text that is not JSON) and member tokens "m_..." that  *)
(* stand for one key/value member of a JSON object.  Python's None is the  *)
(* string "None"; a Python dict is a record and `key in d` is              *)
(* key \in DOMAIN d.                                                       *)
(***************************************************************************)
EXTENDS Integers, Sequences, FiniteSets, TLC

VARIABLES
  entry,            \* which entry point this run exercises
  pc,               \* position of the entry point's coroutine
  raised,           \* exception that left the entry point ("none" if none)
  \* ---- SearXNGClient.search_and_scrape (one call at a time) ----
  spc,              \* position inside search_and_scrape
  squery,           \* its query argument
  smax,             \* its max_results argument
  deadline,         \* TRUE when the call runs under asyncio.wait_for
  elapsed,          \* time units since the call was started
  nreq,             \* GET requests this call has issued
  req,              \* the request in flight: its q and engines parameters
  response,         \* history: what the aggregator answered to the last GET
  search_results,   \* local search_results
  scrape_tasks,     \* local scrape_tasks, one record per coroutine
  sret,             \* value the call returned
  attempts,         \* history: per GET of the last call, what search returned
  \* ---- searxng_search (the tool of a search agent) ----
  tool_calls,       \* calls of the tool during the current generation call
  tool_result,      \* what the last call of the tool returned
  scraped_ok,       \* history: a tool call of this run scraped a page successfully
  only_timeouts,    \* history: every worker so far searched and every search timed out
  stranded,         \* urls whose download or parse still runs in a thread of a cancelled scrape
  \* ---- run_parallel_research ----
  progress_callback, \* TRUE when the caller passed a progress callback
  snapshots,        \* progress snapshots handed to a callback so far
  research_goal,
  query_generation_response,
  queries,
  query_research_goals,
  idx,              \* the loop variable i of the search loop
  wstatus,          \* per query: "idle", "running" or "done"
  search_result_text,
  all_learnings,
  search_results_by_query,
  gen_calls,        \* generation calls (run_and_collect_final_response) issued
  report_input,
  final_report,
  \* ---- WebSearchAgent.search ----
  urls,
  generated,        \* text the generation call produced
  final_response,
  \* ---- discord_bot.py: commands and the direct chat listeners ----
  user_message_history, \* the dict user id -> list of messages (by role)
  handlers,         \* command and listener coroutines in progress
  listeners,        \* per channel: direct_chat_handler closures registered
  nevents,          \* Discord messages received so far
  last_message,     \* history: TRUE once a message was taken by direct chat
  last_entries,     \* history: query entries appended for that message
  last_replies,     \* history: replies sent to that message
  cleared,          \* history: users who cleared their memory and sent nothing since
  \* ---- QueryDispatcher.dispatch ----
  events,           \* the events the classifier run yields
  dispatched,       \* what dispatch did with them
  \* ---- send_chunked_message ----
  message,          \* its message argument: the length of the text, or None
  sent,             \* payloads handed to ctx.send so far
  cpc,              \* position inside send_chunked_message
  \* ---- get_conversation_context ----
  message_history,  \* its message_history argument
  memory_lookup,    \* how the memory search goes
  context           \* the text it returned

ctl == <<entry, pc, raised>>
svars == <<spc, squery, smax, deadline, elapsed, nreq, req, response,
           search_results,
           scrape_tasks, sret>>
tvars == <<tool_calls, tool_result, scraped_ok, only_timeouts, stranded>>
rvars == <<research_goal, query_generation_response, queries,
           query_research_goals, idx, wstatus, search_result_text,
           all_learnings, search_results_by_query, gen_calls, report_input,
           final_report>>
wvars == <<urls, generated, final_response>>
\* the caller's progress callback and what it has been handed
pvars == <<progress_callback, snapshots>>
\* the bot's conversation state
hvars == <<user_message_history, handlers, listeners, nevents, last_message,
           last_entries, last_replies, cleared>>
\* arguments and results of the bot's helper functions
fvars == <<events, dispatched, message, sent, cpc, message_history,
           memory_lookup, context>>
bvars == <<hvars, fvars>>
vars == <<ctl, svars, tvars, rvars, wvars, attempts, pvars, bvars>>
\* everything that a step of search_and_scrape leaves alone
others == <<ctl, tvars, rvars, wvars, pvars, bvars>>

-----------------------------------------------------------------------------
(* Bounds of the model *)

\* longest result list the aggregator answers with
MaxResults == 2
\* time units that one Tick of the clock advances
TickUnit == 30

(* Program constants *)

\* asyncio.wait_for(search_task, timeout=30)
SearchTimeout == 30
\* searxng_client.search_and_scrape(query, max_results=5)
ToolMaxResults == 5
\* async def search_and_scrape(self, query, max_results: int = 30)
DefaultMaxResults == 30
\* random.sample(self.fallback_engines, min(3, len(self.fallback_engines)))
FallbackSample == 3

\* None where a str is expected
None == "None"
\* None where a dict is expected
NoneRec == [none |-> TRUE]

Min(a, b) == IF a <= b THEN a ELSE b

\* a fallback list that still names the primary engine
FallbackEnginesWithGoogle ==
  {"google", "duckduckgo", "bing", "brave", "ecosia", "startpage",
   "yahoo", "qwant", "mojeek", "wikipedia"}

\* self.fallback_engines
fallback_engines ==
  {"duckduckgo", "bing", "brave", "ecosia", "startpage",
   "yahoo", "qwant", "mojeek", "wikipedia"}

\* URLs the aggregator can answer with
Urls == {"ua", "ub"}

RECURSIVE SeqsUpTo(_, _)
SeqsUpTo(S, n) ==
  IF n = 0 THEN {<<>>}
  ELSE LET shorter == SeqsUpTo(S, n - 1)
       IN shorter \cup {Append(s, x) : s \in {t \in shorter : Len(t) = n - 1}, x \in S}

-----------------------------------------------------------------------------
(* SearXNGClient.search: one GET to the aggregator and its reshaping *)

\* What the aggregator and the transport can answer to one GET
Replies ==
  {[kind |-> "ok", results |-> r] : r \in SeqsUpTo(Urls, MaxResults)}
  \cup {[kind |-> k, results |-> <<>>] :
          k \in {"malformed", "status500", "connect_error", "exception"}}

\* the reshaping with positions counted from 0 and no cut
FormatResultsUncutFromZero(data, num_results) ==
  [searchParameters |-> "searxng",
   organic |-> [k \in 1..Len(data) |-> [link |-> data[k], position |-> k - 1]]]

\* _format_results: at most num_results entries, position = len(organic_results) + 1
FormatResults(data, num_results) ==
  [searchParameters |-> "searxng",
   organic |-> [k \in 1..Min(num_results, Len(data)) |->
                  [link |-> data[k], position |-> k]]]

\* search reshaping the body whatever the status of the response
SearchIgnoringStatus(reply, num_results) ==
  CASE reply.kind \in {"ok", "status500"} ->
         [raised |-> FALSE, value |-> FormatResults(reply.results, num_results)]
    [] reply.kind = "connect_error" ->
         [raised |-> FALSE, value |-> [error |-> "Cannot connect to SearXNG"]]
    [] reply.kind = "malformed" ->
         [raised |-> FALSE, value |-> [error |-> "malformed response body"]]
    [] OTHER ->
         [raised |-> FALSE, value |-> [error |-> "transport exception"]]

\* search with a body that does not reshape letting the exception escape
SearchUnguarded(reply, num_results) ==
  CASE reply.kind = "ok" ->
         [raised |-> FALSE, value |-> FormatResults(reply.results, num_results)]
    [] reply.kind = "status500" ->
         [raised |-> FALSE, value |-> [error |-> "Search failed with status code: 500"]]
    [] reply.kind = "connect_error" ->
         [raised |-> FALSE, value |-> [error |-> "Cannot connect to SearXNG"]]
    [] OTHER -> [raised |-> TRUE, value |-> NoneRec]

\* search: [raised, value]; every Exception is turned into {"error": ...}
Search(reply, num_results) ==
  CASE reply.kind = "ok" ->
         [raised |-> FALSE, value |-> FormatResults(reply.results, num_results)]
    [] reply.kind = "status500" ->
         [raised |-> FALSE, value |-> [error |-> "Search failed with status code: 500"]]
    [] reply.kind = "connect_error" ->
         [raised |-> FALSE, value |-> [error |-> "Cannot connect to SearXNG"]]
    [] reply.kind = "malformed" ->
         [raised |-> FALSE, value |-> [error |-> "malformed response body"]]
    [] OTHER ->
         [raised |-> FALSE, value |-> [error |-> "transport exception"]]

\* search_results.get("organic", [])
Organic(results) ==
  IF "organic" \in DOMAIN results THEN results.organic ELSE <<>>

\* the links of the entries whose scraped_content has success == True
SuccessLinks(organic) ==
  {organic[k].link : k \in {j \in 1..Len(organic) :
      /\ "scraped_content" \in DOMAIN organic[j]
      /\ organic[j].scraped_content.success}}

\* the retry decided on an error only
NeedsFallbackOnErrorOnly(results) == "error" \in DOMAIN results

\* "error" in search_results or not search_results.get("organic", [])
NeedsFallback(results) ==
  "error" \in DOMAIN results \/ Organic(results) = <<>>

\* what one search returned: an error, no organic entry, or organic entries
OutcomeKind(results) ==
  IF "error" \in DOMAIN results THEN "error"
  ELSE IF Organic(results) = <<>> THEN "empty" ELSE "organic"

-----------------------------------------------------------------------------
(* SearXNGClient.scrape_url *)

\* the record scrape_url returns when download and parse succeeded
ScrapeOk(url) ==
  [url |-> url, title |-> "title", text |-> "text", success |-> TRUE]

\* a failure record that still carries the article fields
ScrapeFailedWithText(url) ==
  [url |-> url, title |-> "", text |-> "", error |-> "Article processing error",
   success |-> FALSE]

\* the record scrape_url returns when download or parse raised
ScrapeFailed(url) ==
  [url |-> url, error |-> "Article processing error", success |-> FALSE]

\* the record search_and_scrape builds for an exception gather returned
ScrapeException(link) ==
  [url |-> link, error |-> "exception", success |-> FALSE]

-----------------------------------------------------------------------------
(* SearXNGClient.search_and_scrape *)

SasIdle ==
  /\ spc = "idle" /\ squery = None /\ smax = 0 /\ deadline = FALSE
  /\ elapsed = 0 /\ nreq = 0 /\ req = NoneRec /\ search_results = NoneRec
  /\ response = NoneRec
  /\ scrape_tasks = <<>> /\ sret = NoneRec

\* The call may take a step: it is not past its wait_for deadline
SasMayRun == ~deadline \/ elapsed < SearchTimeout

\* entering search_and_scrape: the first search runs with default engines
SasStart(query, max_results, under_wait_for) ==
  /\ spc' = "primary"
  /\ squery' = query
  /\ smax' = max_results
  /\ deadline' = under_wait_for
  /\ elapsed' = 0
  /\ nreq' = 1
  /\ req' = [q |-> query, engines |-> {}]
  /\ response' = NoneRec
  /\ search_results' = NoneRec
  /\ scrape_tasks' = <<>>
  /\ sret' = NoneRec
  /\ attempts' = <<>>

\* an outcome without organic entries turned into an error outcome
SasAfterSearchErrorOnEmpty(results) ==
  /\ search_results' = results
  /\ req' = NoneRec
  /\ IF "error" \in DOMAIN results \/ Organic(results) = <<>>
       THEN /\ spc' = "returned"
            /\ sret' = IF "error" \in DOMAIN results THEN results
                       ELSE [error |-> "No results found"]
            /\ scrape_tasks' = <<>>
       ELSE /\ spc' = "delay"
            /\ sret' = NoneRec
            /\ scrape_tasks' = <<>>

\* lines 202-213 then the first asyncio.sleep: what follows the last search
SasAfterSearch(results) ==
  /\ search_results' = results
  /\ req' = NoneRec
  /\ IF "error" \in DOMAIN results \/ Organic(results) = <<>>
       THEN /\ spc' = "returned"
            /\ sret' = results
            /\ scrape_tasks' = <<>>
       ELSE /\ spc' = "delay"
            /\ sret' = NoneRec
            /\ scrape_tasks' = <<>>

\* lines 192-200: the reply to the first GET; on an error or no result the
\* fallback GET is issued (its reply will overwrite search_results)
SasPrimaryReply ==
  /\ spc = "primary" /\ SasMayRun
  /\ \E reply \in Replies :
       /\ response' = reply
       /\ LET out == Search(reply, smax) IN
          IF out.raised
            THEN /\ spc' = "raised"
                 /\ UNCHANGED <<nreq, req, search_results, scrape_tasks, sret,
                                attempts>>
            ELSE /\ attempts' = Append(attempts, OutcomeKind(out.value))
                 /\ IF NeedsFallback(out.value)
                      THEN \E engines_to_try \in
                             {e \in SUBSET fallback_engines :
                                Cardinality(e) =
                                  Min(FallbackSample, Cardinality(fallback_engines))} :
                             /\ spc' = "fallback"
                             /\ search_results' = out.value
                             /\ nreq' = nreq + 1
                             /\ req' = [q |-> squery, engines |-> engines_to_try]
                             /\ UNCHANGED <<scrape_tasks, sret>>
                      ELSE /\ SasAfterSearch(out.value)
                           /\ UNCHANGED nreq
  /\ UNCHANGED <<squery, smax, deadline, elapsed>>
  /\ UNCHANGED others

\* the reply to the fallback GET
SasFallbackReply ==
  /\ spc = "fallback" /\ SasMayRun
  /\ \E reply \in Replies :
       /\ response' = reply
       /\ LET out == Search(reply, smax) IN
          IF out.raised
            THEN /\ spc' = "raised"
                 /\ UNCHANGED <<req, search_results, scrape_tasks, sret, attempts>>
            ELSE /\ SasAfterSearch(out.value)
                 /\ attempts' = Append(attempts, OutcomeKind(out.value))
  /\ UNCHANGED <<squery, smax, deadline, elapsed, nreq>>
  /\ UNCHANGED others

\* the link of the first organic entry only
UrlsToScrapeFirstOnly(results) ==
  [k \in 1..Min(1, Len(Organic(results))) |-> Organic(results)[k].link]

\* urls_to_scrape
UrlsToScrape(results) ==
  [k \in 1..Len(Organic(results)) |-> Organic(results)[k].link]

\* asyncio.sleep returns: the coroutine for the next url is created; after the
\* last one asyncio.gather turns every coroutine into a running task
SasDelayElapsed ==
  /\ spc = "delay" /\ SasMayRun
  /\ LET urls_to_scrape == UrlsToScrape(search_results)
         created == Append(scrape_tasks,
                      [url |-> urls_to_scrape[Len(scrape_tasks) + 1],
                       st |-> "created", result |-> NoneRec])
     IN IF Len(created) < Len(urls_to_scrape)
          THEN /\ scrape_tasks' = created
               /\ spc' = "delay"
          ELSE /\ scrape_tasks' =
                    [k \in 1..Len(created) |-> [created[k] EXCEPT !.st = "download"]]
               /\ spc' = "gather"
  /\ UNCHANGED <<squery, smax, deadline, elapsed, nreq, req, response,
                 search_results, sret>>
  /\ UNCHANGED <<others, attempts>>

\* scrape_url: article.download in a thread
ScrapeDownload(k) ==
  /\ spc = "gather" /\ SasMayRun
  /\ k \in 1..Len(scrape_tasks)
  /\ scrape_tasks[k].st = "download"
  /\ \E ok \in BOOLEAN :
       scrape_tasks' = [scrape_tasks EXCEPT ![k] =
          IF ok THEN [url |-> @.url, st |-> "parse", result |-> NoneRec]
          ELSE [url |-> @.url, st |-> "done", result |-> ScrapeFailed(@.url)]]
  /\ UNCHANGED <<spc, squery, smax, deadline, elapsed, nreq, req, response,
                 search_results, sret>>
  /\ UNCHANGED <<others, attempts>>

\* scrape_url: article.parse in a thread, then the record it returns
ScrapeParse(k) ==
  /\ spc = "gather" /\ SasMayRun
  /\ k \in 1..Len(scrape_tasks)
  /\ scrape_tasks[k].st = "parse"
  /\ \E ok \in BOOLEAN :
       scrape_tasks' = [scrape_tasks EXCEPT ![k] =
          [url |-> @.url, st |-> "done",
           result |-> IF ok THEN ScrapeOk(@.url) ELSE ScrapeFailed(@.url)]]
  /\ UNCHANGED <<spc, squery, smax, deadline, elapsed, nreq, req, response,
                 search_results, sret>>
  /\ UNCHANGED <<others, attempts>>

\* the outcomes attached in the reverse of their order
AttachScrapedReversed(results, scraped_results) ==
  [results EXCEPT !.organic =
     [i \in 1..Len(results.organic) |->
        IF i <= Len(scraped_results)
          THEN [link |-> results.organic[i].link,
                position |-> results.organic[i].position,
                scraped_content |-> scraped_results[Len(scraped_results) + 1 - i]]
          ELSE results.organic[i]]]

\* lines 226-236: scraped_results[i] is attached to organic[i]
AttachScraped(results, scraped_results) ==
  [results EXCEPT !.organic =
     [i \in 1..Len(results.organic) |->
        IF i <= Len(scraped_results)
          THEN [link |-> results.organic[i].link,
                position |-> results.organic[i].position,
                scraped_content |->
                  IF "exception" \in DOMAIN scraped_results[i]
                    THEN ScrapeException(results.organic[i].link)
                    ELSE scraped_results[i]]
          ELSE results.organic[i]]]

\* asyncio.gather returns once every scrape task is done
SasGatherDone ==
  /\ spc = "gather" /\ SasMayRun
  /\ \A k \in 1..Len(scrape_tasks) : scrape_tasks[k].st = "done"
  /\ LET scraped_results == [k \in 1..Len(scrape_tasks) |-> scrape_tasks[k].result]
         final == AttachScraped(search_results, scraped_results)
     IN /\ search_results' = final
        /\ sret' = final
  /\ spc' = "returned"
  /\ UNCHANGED <<squery, smax, deadline, elapsed, nreq, req, response,
                 scrape_tasks>>
  /\ UNCHANGED <<others, attempts>>

-----------------------------------------------------------------------------
(* Extraction of a JSON object from generated text *)

SetMin(S) == CHOOSE x \in S : \A y \in S : x <= y
SetMax(S) == CHOOSE x \in S : \A y \in S : y <= x

\* a JSON list value / a JSON value that is not a list
List(items) == [list |-> TRUE, items |-> items]
NotList == [list |-> FALSE, items |-> <<>>]

\* a list entry that is a plain string / an object with the given keys
StrEntry(s) ==
  [isdict |-> FALSE, keys |-> {}, text |-> s, query |-> "", researchGoal |-> ""]
DictEntry(keys, q, rg) ==
  [isdict |-> TRUE, keys |-> keys, text |-> "", query |-> q, researchGoal |-> rg]

\* the member tokens and the JSON object {member} each stands for
Members ==
  {"m_q0", "m_q1", "m_q2", "m_q2d", "m_q3", "m_qd", "m_qn", "m_qs",
   "m_other", "m_l0", "m_l1", "m_l2", "m_ls"}

MemberObj(m) ==
  CASE m = "m_q0" -> [queries |-> List(<<>>)]
    [] m = "m_q1" -> [queries |-> List(<<StrEntry("qa")>>)]
    [] m = "m_q2" -> [queries |-> List(<<StrEntry("qa"), StrEntry("qb")>>)]
    [] m = "m_q2d" -> [queries |-> List(<<StrEntry("qa"), StrEntry("qa")>>)]
    [] m = "m_q3" ->
         [queries |-> List(<<StrEntry("qa"), StrEntry("qb"), StrEntry("qc")>>)]
    [] m = "m_qd" ->
         [queries |-> List(<<DictEntry({"query", "researchGoal"}, "qa", "rga"),
                             DictEntry({"query"}, "qb", "")>>)]
    [] m = "m_qn" -> [queries |-> List(<<DictEntry({"researchGoal"}, "", "rga")>>)]
    [] m = "m_qs" -> [queries |-> NotList]
    [] m = "m_l0" -> [learnings |-> List(<<>>)]
    [] m = "m_l1" -> [learnings |-> List(<<"L1">>)]
    [] m = "m_l2" -> [learnings |-> List(<<"L1", "L2">>)]
    [] m = "m_ls" -> [learnings |-> NotList]
    [] OTHER -> [other |-> NotList]

\* ends of the first alternative at p: ```json\s*({[\s\S]*?})\s*```
FenceEnds(t, p) ==
  {q \in (p + 2)..(Len(t) - 1) : t[q] = "rb" /\ t[q + 1] = "fc"}
FenceMatchAt(t, p) ==
  /\ p + 1 <= Len(t) /\ t[p] = "fo" /\ t[p + 1] = "lb"
  /\ FenceEnds(t, p) # {}

\* ends of the second alternative at p: ({[\s\S]*})
BareEnds(t, p) == {q \in (p + 1)..Len(t) : t[q] = "rb"}
BareMatchAt(t, p) == t[p] = "lb" /\ BareEnds(t, p) # {}

\* re.search(...) and the first group that is not None: the leftmost position
\* where an alternative matches wins; the fence is lazy, the bare match greedy
JsonMatch(t) ==
  LET starts == {p \in 1..Len(t) : FenceMatchAt(t, p) \/ BareMatchAt(t, p)}
  IN IF starts = {} THEN [found |-> FALSE, json_str |-> <<>>]
     ELSE LET p == SetMin(starts)
          IN IF FenceMatchAt(t, p)
               THEN [found |-> TRUE,
                     json_str |-> SubSeq(t, p + 1, SetMin(FenceEnds(t, p)))]
               ELSE [found |-> TRUE,
                     json_str |-> SubSeq(t, p, SetMax(BareEnds(t, p)))]

\* json.loads of a matched string: ok is FALSE for json.JSONDecodeError
JsonLoads(json_str) ==
  IF Len(json_str) = 2 /\ json_str[1] = "lb" /\ json_str[2] = "rb"
    THEN [ok |-> TRUE, obj |-> <<>>]
  ELSE IF /\ Len(json_str) = 3 /\ json_str[1] = "lb" /\ json_str[3] = "rb"
          /\ json_str[2] \in Members
    THEN [ok |-> TRUE, obj |-> MemberObj(json_str[2])]
  ELSE [ok |-> FALSE, obj |-> <<>>]

\* key in obj and isinstance(obj[key], list)
HasList(obj, key) == key \in DOMAIN obj /\ obj[key].list

-----------------------------------------------------------------------------
(* run_and_collect_final_response *)

\* what runner.run can do: yield a final response with text, end without
\* one, or raise
Final(t) == [kind |-> "final", text |-> t]
NoFinal == [kind |-> "no_final", text |-> <<>>]
Raises == [kind |-> "raise", text |-> <<>>]

\* a str result; None is NoneRec
Text(t) == [text |-> t]

\* run_and_collect_final_response: [raised, value]
RunAndCollect(reply) ==
  CASE reply.kind = "final" -> [raised |-> FALSE, value |-> Text(reply.text)]
    [] reply.kind = "no_final" -> [raised |-> FALSE, value |-> NoneRec]
    [] OTHER -> [raised |-> TRUE, value |-> NoneRec]

\* truthiness of a response: neither None nor the empty string
Truthy(resp) == "text" \in DOMAIN resp /\ resp.text # <<>>

-----------------------------------------------------------------------------
(* run_parallel_research: planning *)

Goals == {"g1"}

\* lines 310-336: the list under "queries", [] on every failure
ExtractQueries(resp) ==
  IF "text" \notin DOMAIN resp THEN <<>>
  ELSE LET json_match == JsonMatch(resp.text)
           query_result == JsonLoads(json_match.json_str)
       IN IF json_match.found /\ query_result.ok
             /\ HasList(query_result.obj, "queries")
            THEN query_result.obj.queries.items
            ELSE <<>>

\* the extraction block without its outer handler: re.search raises TypeError
\* on a None response and nothing catches it
ExtractEscapesOnNone(resp) == "text" \notin DOMAIN resp

\* lines 311-336: whether an exception leaves the extraction block:
\* json.JSONDecodeError is caught at 330 and every other Exception, such as
\* the TypeError of re.search on a None response, at 335
ExtractEscapes(resp) == FALSE

\* an insertion-ordered dict as a sequence of [key, val]; d[key] = val
DictSet(d, key, val) ==
  IF \E k \in 1..Len(d) : d[k].key = key
    THEN [k \in 1..Len(d) |-> IF d[k].key = key THEN [key |-> key, val |-> val] ELSE d[k]]
    ELSE Append(d, [key |-> key, val |-> val])

\* d.get(key, default)
DictGet(d, key, default) ==
  IF \E k \in 1..Len(d) : d[k].key = key
    THEN d[CHOOSE k \in 1..Len(d) : d[k].key = key].val
    ELSE default

\* lines 325-327: research goals of the entries that carry query and researchGoal
RECURSIVE StoreResearchGoals(_, _)
StoreResearchGoals(d, items) ==
  IF items = <<>> THEN d
  ELSE LET query_item == Head(items)
       IN StoreResearchGoals(
            IF query_item.isdict /\ {"query", "researchGoal"} \subseteq query_item.keys
              THEN DictSet(d, query_item.query, query_item.researchGoal)
              ELSE d,
            Tail(items))

\* the fallback as a single query that is the goal itself
FallbackGoalOnly(goal) == <<StrEntry(goal)>>

\* lines 341-345
FallbackQueries(goal) ==
  <<DictEntry({"query"}, goal \o " overview", ""),
    DictEntry({"query"}, goal \o " analysis", ""),
    DictEntry({"query"}, goal \o " impact", "")>>

\* the extracted list used as it is, also when it is empty
WithoutFallback(extracted, goal) == extracted

\* lines 338-345
WithFallback(extracted, goal) ==
  IF extracted = <<>> THEN FallbackQueries(goal) ELSE extracted

\* the list the search loop iterates over, cut to its first two entries
PlanQueriesCapped(resp, goal) ==
  LET all == WithFallback(ExtractQueries(resp), goal)
  IN SubSeq(all, 1, Min(2, Len(all)))

\* lines 309-345: the list the search loop iterates over
PlanQueries(resp, goal) == WithFallback(ExtractQueries(resp), goal)

\* line 350
QueryOf(query_item) ==
  IF query_item.isdict
    THEN IF "query" \in query_item.keys THEN query_item.query ELSE None
    ELSE query_item.text

\* texts the planner call can answer with
PlannerTexts ==
  {<<"txt">>,
   <<"fo", "lb", "bad", "rb", "fc">>,
   <<"lb", "m_other", "rb">>,
   <<"lb", "m_qs", "rb">>,
   <<"fo", "lb", "m_q0", "rb", "fc">>,
   <<"lb", "m_q1", "rb">>,
   <<"txt", "fo", "lb", "m_q2", "rb", "fc", "txt">>,
   <<"fo", "lb", "m_q2d", "rb", "fc">>,
   <<"fo", "lb", "m_q3", "rb", "fc">>,
   <<"fo", "lb", "m_qd", "rb", "fc">>,
   <<"lb", "m_qn", "rb">>,
   <<"lb", "txt", "rb", "fo", "lb", "m_q1", "rb", "fc">>,
   <<"fo", "lb", "m_q1", "rb", "fc", "lb", "txt", "rb">>}

PlannerReplies == {Final(t) : t \in PlannerTexts} \cup {NoFinal, Raises}

\* the call binding a progress callback to a parameter and going on
RStartAcceptingCallback ==
  /\ entry = "research" /\ pc = "start"
  /\ \E goal \in Goals : research_goal' = goal
  /\ \E cb \in BOOLEAN : progress_callback' = cb
  /\ gen_calls' = gen_calls + 1
  /\ pc' = "plan"
  /\ UNCHANGED <<entry, raised, svars, tvars, wvars, snapshots, bvars>>
  /\ UNCHANGED <<query_generation_response, queries, query_research_goals, idx,
                 wstatus, search_result_text, all_learnings,
                 search_results_by_query, report_input, final_report>>
  /\ UNCHANGED attempts

\* line 253, 299-306: run_parallel_research(research_goal, context="") is
\* called; its parameters take no callback, so a call that passes one raises
\* TypeError when its arguments are bound; otherwise the planner call is issued
RStart ==
  /\ entry = "research" /\ pc = "start"
  /\ \E goal \in Goals, cb \in BOOLEAN :
       /\ progress_callback' = cb
       /\ IF cb
            THEN /\ pc' = "done" /\ raised' = "TypeError"
                 /\ UNCHANGED <<research_goal, gen_calls>>
            ELSE /\ pc' = "plan" /\ raised' = raised
                 /\ research_goal' = goal
                 /\ gen_calls' = gen_calls + 1
  /\ UNCHANGED <<entry, svars, tvars, wvars, snapshots, bvars>>
  /\ UNCHANGED <<query_generation_response, queries, query_research_goals, idx,
                 wstatus, search_result_text, all_learnings,
                 search_results_by_query, report_input, final_report>>
  /\ UNCHANGED attempts

\* lines 300-348: the planner call returns; queries are extracted
RPlanReturn ==
  /\ entry = "research" /\ pc = "plan"
  /\ \E reply \in PlannerReplies :
       LET out == RunAndCollect(reply) IN
       IF out.raised
         THEN /\ pc' = "done" /\ raised' = "planner"
              /\ UNCHANGED <<query_generation_response, queries,
                             query_research_goals, idx, wstatus>>
         ELSE IF ExtractEscapes(out.value)
         THEN /\ pc' = "done" /\ raised' = "extraction"
              /\ query_generation_response' = out.value
              /\ UNCHANGED <<queries, query_research_goals, idx, wstatus>>
         ELSE LET planned == PlanQueries(out.value, research_goal) IN
              /\ pc' = "loop" /\ raised' = raised
              /\ query_generation_response' = out.value
              /\ queries' = planned
              /\ query_research_goals' =
                   StoreResearchGoals(<<>>, ExtractQueries(out.value))
              /\ idx' = 1
              /\ wstatus' = [k \in 1..Len(planned) |-> "idle"]
  /\ UNCHANGED <<entry, svars, tvars, wvars>>
  /\ UNCHANGED <<research_goal, search_result_text, all_learnings,
                 search_results_by_query, gen_calls, report_input, final_report>>
  /\ UNCHANGED attempts
  /\ UNCHANGED <<pvars, bvars>>

-----------------------------------------------------------------------------
(* searxng_search: the tool a search agent may call during its generation *)

\* most calls of the tool during one generation call
MaxToolCalls == 1

SasReset ==
  /\ spc' = "idle" /\ squery' = None /\ smax' = 0 /\ deadline' = FALSE
  /\ elapsed' = 0 /\ nreq' = 0 /\ req' = NoneRec /\ search_results' = NoneRec
  /\ response' = NoneRec
  /\ scrape_tasks' = <<>> /\ sret' = NoneRec

SasPending == spc \in {"primary", "fallback", "delay", "gather"}

\* a timeout result that does not say which query timed out
TimeoutWithoutQuery(query) == [error |-> "Search timeout", query |-> None]

\* line 96
TimeoutResult(query) ==
  [error |-> "Search timeout for query: " \o query, query |-> query]


\* line 99
ExceptionResult(query) == [error |-> "exception", query |-> query]

\* lines 86-88: the model calls the tool with the query of its agent
ToolCall ==
  /\ entry = "research" /\ pc = "worker"
  /\ tool_calls < MaxToolCalls
  /\ SasStart(QueryOf(queries[idx]), ToolMaxResults, TRUE)
  /\ tool_calls' = tool_calls + 1
  /\ tool_result' = NoneRec
  /\ pc' = "tool"
  /\ UNCHANGED <<entry, raised, scraped_ok, only_timeouts, stranded, rvars, wvars>>
  /\ UNCHANGED <<pvars, bvars>>

\* time passes while the search task is pending under wait_for
Tick ==
  /\ deadline /\ SasPending
  /\ elapsed < SearchTimeout
  /\ elapsed' = elapsed + TickUnit
  /\ UNCHANGED <<spc, squery, smax, deadline, nreq, req, response, search_results,
                 scrape_tasks, sret>>
  /\ UNCHANGED <<others, attempts>>

\* the urls of the scrape tasks that are inside article.download or
\* article.parse, each of which runs in a thread of the executor
InThread ==
  {scrape_tasks[k].url :
     k \in {j \in 1..Len(scrape_tasks) : scrape_tasks[j].st \in {"download", "parse"}}}

\* the deadline passing without the search task being cancelled
ToolTimeoutLeavingTasks ==
  /\ pc = "tool" /\ deadline /\ SasPending
  /\ elapsed >= SearchTimeout
  /\ tool_result' = TimeoutResult(squery)
  /\ pc' = "worker"
  /\ UNCHANGED <<entry, raised, tool_calls, scraped_ok, only_timeouts, stranded,
                 rvars, wvars, svars>>
  /\ UNCHANGED attempts
  /\ UNCHANGED <<pvars, bvars>>

\* lines 92-96: the deadline passes first; wait_for cancels the search task,
\* the cancellation reaches the gather it awaits and through it every scrape
\* task; a call that already runs in a thread cannot be cancelled
ToolTimeout ==
  /\ pc = "tool" /\ deadline /\ SasPending
  /\ elapsed >= SearchTimeout
  /\ tool_result' = TimeoutResult(squery)
  /\ stranded' = stranded \cup InThread
  /\ SasReset
  /\ pc' = "worker"
  /\ UNCHANGED <<entry, raised, tool_calls, scraped_ok, only_timeouts, rvars,
                 wvars>>
  /\ UNCHANGED attempts
  /\ UNCHANGED <<pvars, bvars>>

\* searxng_client.py 154-155: a download or parse call left running in its
\* thread returns; the scrape task that awaited it is gone and nothing reads
\* what the call produced
ThreadEnds(url) ==
  /\ url \in stranded
  /\ stranded' = stranded \ {url}
  /\ UNCHANGED <<tool_calls, tool_result, scraped_ok, only_timeouts>>
  /\ UNCHANGED <<ctl, svars, rvars, wvars, attempts, pvars, bvars>>

\* lines 92-93, 97-99: the search task ends before the deadline
ToolReturn ==
  /\ pc = "tool" /\ spc \in {"returned", "raised"}
  /\ tool_result' = IF spc = "raised" THEN ExceptionResult(squery) ELSE sret
  /\ scraped_ok' =
       (scraped_ok \/ (spc = "returned" /\ SuccessLinks(Organic(sret)) # {}))
  /\ only_timeouts' = FALSE
  /\ UNCHANGED stranded
  /\ SasReset
  /\ pc' = "worker"
  /\ UNCHANGED <<entry, raised, tool_calls, rvars, wvars>>
  /\ UNCHANGED attempts
  /\ UNCHANGED <<pvars, bvars>>

-----------------------------------------------------------------------------
(* run_parallel_research: the search loop and the report *)

\* search_result_text[:300]
PrefixLen == 300

Spell(tok) ==
  CASE tok = "fo" -> "~~~json "
    [] tok = "fc" -> "~~~ "
    [] tok = "lb" -> "{ "
    [] tok = "rb" -> "} "
    [] OTHER -> tok \o " "

RECURSIVE Render(_)
Render(t) == IF t = <<>> THEN "" ELSE Spell(Head(t)) \o Render(Tail(t))

\* characters a token stands for: "long" is a run of prose longer than the
\* prefix that is kept, every other token counts as one
TokLen(tok) == IF tok = "long" THEN PrefixLen + 1 ELSE 1

\* t[:n]: the tokens that fit and, of the first that does not, its first
\* characters
RECURSIVE Prefix(_, _)
Prefix(t, n) ==
  IF t = <<>> \/ n = 0 THEN <<>>
  ELSE IF TokLen(Head(t)) <= n
    THEN <<Head(t)>> \o Prefix(Tail(t), n - TokLen(Head(t)))
    ELSE <<Head(t) \o "[:" \o ToString(n) \o "]">>

\* the learning built from the whole raw text
RawLearningUncut(query, t) ==
  "From search '" \o query \o "': " \o Render(t) \o "..."

\* lines 408, 413: the learning built from the raw text
RawLearning(query, t) ==
  "From search '" \o query \o "': " \o Render(Prefix(t, PrefixLen)) \o "..."

\* line 402
NoStructuredLearning(query) ==
  "From search '" \o query \o "': Found information but no structured learnings."

\* line 425
NoResultLearning(query) ==
  "From search '" \o query \o "': No results obtained."

\* lines 382-427: the learnings one search response adds
WorkerLearnings(query, resp) ==
  IF ~Truthy(resp) THEN <<NoResultLearning(query)>>
  ELSE LET json_match == JsonMatch(resp.text)
           search_result == JsonLoads(json_match.json_str)
       IN IF ~json_match.found THEN <<RawLearning(query, resp.text)>>
          ELSE IF ~search_result.ok THEN <<RawLearning(query, resp.text)>>
          ELSE IF HasList(search_result.obj, "learnings")
            THEN search_result.obj.learnings.items
            ELSE <<NoStructuredLearning(query)>>

\* texts a search agent can answer with
WorkerTexts ==
  {<<"fo", "lb", "m_l1", "rb", "fc">>,
   <<"txt">>,
   <<"lb", "bad", "rb">>,
   <<"lb", "m_other", "rb">>,
   <<"lb", "m_l0", "rb">>,
   <<"long">>}

WorkerReplies == {Final(t) : t \in WorkerTexts} \cup {NoFinal, Raises}

\* the loop issuing the generation call of an agent a second time
RWorkerStartTwice ==
  /\ entry = "research" /\ pc = "loop"
  /\ idx <= Len(queries)
  /\ wstatus' = [wstatus EXCEPT ![idx] = "running"]
  /\ gen_calls' = gen_calls + 2
  /\ query_generation_response' = NoneRec
  /\ search_result_text' = NoneRec
  /\ tool_calls' = 0
  /\ tool_result' = NoneRec
  /\ pc' = "worker"
  /\ UNCHANGED <<entry, raised, scraped_ok, only_timeouts, stranded, svars, wvars>>
  /\ UNCHANGED <<research_goal, queries, query_research_goals, idx,
                 all_learnings, search_results_by_query, report_input,
                 final_report>>
  /\ attempts' = <<>>
  /\ UNCHANGED <<pvars, bvars>>

\* lines 349-380: iteration i of the loop issues the generation call of its agent
RWorkerStart ==
  /\ entry = "research" /\ pc = "loop"
  /\ idx <= Len(queries)
  /\ wstatus' = [wstatus EXCEPT ![idx] = "running"]
  /\ gen_calls' = gen_calls + 1
  /\ query_generation_response' = NoneRec
  /\ search_result_text' = NoneRec
  /\ tool_calls' = 0
  /\ tool_result' = NoneRec
  /\ pc' = "worker"
  /\ UNCHANGED <<entry, raised, scraped_ok, only_timeouts, stranded, svars, wvars>>
  /\ UNCHANGED <<research_goal, queries, query_research_goals, idx,
                 all_learnings, search_results_by_query, report_input,
                 final_report>>
  /\ attempts' = <<>>
  /\ UNCHANGED <<pvars, bvars>>

\* lines 374-427: the generation call returns and its learnings are stored
RWorkerReturn ==
  /\ entry = "research" /\ pc = "worker"
  /\ \E reply \in WorkerReplies :
       LET out == RunAndCollect(reply)
           query == QueryOf(queries[idx])
       IN IF out.raised
            THEN /\ pc' = "done" /\ raised' = "worker"
                 /\ UNCHANGED <<search_result_text, all_learnings,
                                search_results_by_query, wstatus, idx>>
            ELSE LET learnings == WorkerLearnings(query, out.value) IN
                 /\ pc' = "loop" /\ raised' = raised
                 /\ search_result_text' = out.value
                 /\ all_learnings' = all_learnings \o learnings
                 /\ search_results_by_query' =
                      DictSet(search_results_by_query, query, learnings)
                 /\ wstatus' = [wstatus EXCEPT ![idx] = "done"]
                 /\ idx' = idx + 1
  /\ tool_calls' = 0
  /\ tool_result' = NoneRec
  /\ only_timeouts' = (only_timeouts /\ tool_calls > 0)
  /\ UNCHANGED stranded
  /\ UNCHANGED <<entry, scraped_ok, svars, wvars>>
  /\ UNCHANGED <<research_goal, query_generation_response, queries,
                 query_research_goals, gen_calls, report_input, final_report>>
  /\ attempts' = <<>>
  /\ UNCHANGED <<pvars, bvars>>

\* lines 439-447: one section per key of search_results_by_query
BuildReportInput(by_query, goals) ==
  [k \in 1..Len(by_query) |->
     [query |-> by_query[k].key,
      research_goal_text |-> DictGet(goals, by_query[k].key, ""),
      findings |-> by_query[k].val]]

SynthTexts == {<<"report">>}
SynthReplies == {Final(t) : t \in SynthTexts} \cup {NoFinal, Raises}

\* the report call issued without waiting for the last search
RSynthStartEarly ==
  /\ entry = "research" /\ pc = "loop"
  /\ idx >= Len(queries)
  /\ report_input' = BuildReportInput(search_results_by_query, query_research_goals)
  /\ gen_calls' = gen_calls + 1
  /\ query_generation_response' = NoneRec
  /\ search_result_text' = NoneRec
  /\ pc' = "synth"
  /\ UNCHANGED <<entry, raised, svars, tvars, wvars>>
  /\ UNCHANGED <<research_goal, queries, query_research_goals, idx, wstatus,
                 all_learnings, search_results_by_query, final_report>>
  /\ UNCHANGED attempts
  /\ UNCHANGED <<pvars, bvars>>

\* lines 429-504: after the loop, the report call is issued
RSynthStart ==
  /\ entry = "research" /\ pc = "loop"
  /\ idx > Len(queries)
  /\ report_input' = BuildReportInput(search_results_by_query, query_research_goals)
  /\ gen_calls' = gen_calls + 1
  /\ query_generation_response' = NoneRec
  /\ search_result_text' = NoneRec
  /\ pc' = "synth"
  /\ UNCHANGED <<entry, raised, svars, tvars, wvars>>
  /\ UNCHANGED <<research_goal, queries, query_research_goals, idx, wstatus,
                 all_learnings, search_results_by_query, final_report>>
  /\ UNCHANGED attempts
  /\ UNCHANGED <<pvars, bvars>>

\* lines 498-511: the report call returns and its text is returned as is
RSynthReturn ==
  /\ entry = "research" /\ pc = "synth"
  /\ \E reply \in SynthReplies :
       LET out == RunAndCollect(reply) IN
       IF out.raised
         THEN /\ raised' = "report" /\ final_report' = final_report
         ELSE /\ raised' = raised /\ final_report' = out.value
  /\ pc' = "done"
  /\ UNCHANGED <<entry, svars, tvars, wvars>>
  /\ UNCHANGED <<research_goal, query_generation_response, queries,
                 query_research_goals, idx, wstatus, search_result_text,
                 all_learnings, search_results_by_query, gen_calls, report_input>>
  /\ UNCHANGED attempts
  /\ UNCHANGED <<pvars, bvars>>

-----------------------------------------------------------------------------
(* WebSearchAgent.search *)

WebQueries == {"qa"}

\* the urls of every entry that was scraped, whatever the outcome
RECURSIVE CollectAllUrls(_)
CollectAllUrls(organic) ==
  IF organic = <<>> THEN <<>>
  ELSE LET result == Head(organic)
           rest == CollectAllUrls(Tail(organic))
       IN IF "scraped_content" \in DOMAIN result
            THEN <<result.scraped_content.url>> \o rest
            ELSE rest

\* lines 95-99: the urls of the entries whose scrape succeeded
RECURSIVE CollectUrls(_)
CollectUrls(organic) ==
  IF organic = <<>> THEN <<>>
  ELSE LET result == Head(organic)
           rest == CollectUrls(Tail(organic))
       IN IF /\ "scraped_content" \in DOMAIN result
             /\ result.scraped_content.success
             /\ result.scraped_content.url # ""
            THEN <<result.scraped_content.url>> \o rest
            ELSE rest

\* a list left as it is
KeepDuplicates(list) == list

\* line 102: list(dict.fromkeys(urls))
RECURSIVE DictFromKeys(_)
DictFromKeys(list) ==
  IF list = <<>> THEN <<>>
  ELSE LET front == DictFromKeys(SubSeq(list, 1, Len(list) - 1))
           last == list[Len(list)]
       IN IF \E k \in 1..Len(front) : front[k] = last
            THEN front ELSE Append(front, last)

\* lines 124-146: the text of the final response, of the other responses
\* joined, or the apology
WebGenerations ==
  {<<"answer">>,
   <<"answer", "## Sources", "- ux">>,
   <<"partial">>,
   <<"Sorry, I couldn't find any information on that topic.">>}

\* the section appended whether or not there is a url
SourcesSectionAlways(list) ==
  <<"## Sources">> \o [k \in 1..Len(list) |-> "- " \o list[k]]

\* lines 149-150: "\n\n## Sources\n" + "\n".join(f"- {url}" for url in urls)
SourcesSection(list) ==
  IF list = <<>> THEN <<>>
  ELSE <<"## Sources">> \o [k \in 1..Len(list) |-> "- " \o list[k]]

\* lines 74-92: search_and_scrape is called with the default max_results
WsCall ==
  /\ entry = "web_search" /\ pc = "start"
  /\ \E q \in WebQueries : SasStart(q, DefaultMaxResults, FALSE)
  /\ pc' = "search"
  /\ UNCHANGED <<entry, raised, tvars, rvars, wvars>>
  /\ UNCHANGED <<pvars, bvars>>

\* lines 92-102: search_and_scrape returned; the urls are collected
WsCollect ==
  /\ entry = "web_search" /\ pc = "search"
  /\ spc \in {"returned", "raised"}
  /\ IF spc = "raised"
       THEN /\ pc' = "done" /\ raised' = "search_and_scrape"
            /\ urls' = urls
       ELSE /\ pc' = "generate" /\ raised' = raised
            /\ urls' = DictFromKeys(CollectUrls(Organic(sret)))
  /\ UNCHANGED <<entry, svars, tvars, rvars, generated, final_response>>
  /\ UNCHANGED attempts
  /\ UNCHANGED <<pvars, bvars>>

\* lines 124-152: the generation call returns; the sources are appended
WsGenerate ==
  /\ entry = "web_search" /\ pc = "generate"
  /\ \E reply \in {Final(t) : t \in WebGenerations} \cup {Raises} :
       IF reply.kind = "raise"
         THEN /\ raised' = "generation"
              /\ UNCHANGED <<generated, final_response>>
         ELSE /\ raised' = raised
              /\ generated' = reply.text
              /\ final_response' = reply.text \o SourcesSection(urls)
  /\ pc' = "done"
  /\ UNCHANGED <<entry, svars, tvars, rvars, urls>>
  /\ UNCHANGED attempts
  /\ UNCHANGED <<pvars, bvars>>

-----------------------------------------------------------------------------
(* search_and_scrape called directly *)

DirectQueries == {"qa"}
DirectMaxResults == {1, DefaultMaxResults}

DirectCall ==
  /\ entry = "search_and_scrape" /\ pc = "start"
  /\ \E q \in DirectQueries, m \in DirectMaxResults : SasStart(q, m, FALSE)
  /\ pc' = "search"
  /\ UNCHANGED <<entry, raised, tvars, rvars, wvars>>
  /\ UNCHANGED <<pvars, bvars>>

DirectReturn ==
  /\ entry = "search_and_scrape" /\ pc = "search"
  /\ spc \in {"returned", "raised"}
  /\ pc' = "done"
  /\ raised' = IF spc = "raised" THEN "search_and_scrape" ELSE "none"
  /\ UNCHANGED <<entry, svars, tvars, rvars, wvars>>
  /\ UNCHANGED attempts
  /\ UNCHANGED <<pvars, bvars>>

-----------------------------------------------------------------------------
(* Specifications *)

InitCommon ==
  /\ pc = "start" /\ raised = "none"
  /\ SasIdle
  /\ tool_calls = 0 /\ tool_result = NoneRec /\ scraped_ok = FALSE
  /\ only_timeouts = TRUE
  /\ stranded = {}
  /\ attempts = <<>>
  /\ progress_callback = FALSE /\ snapshots = <<>>
  /\ research_goal = None
  /\ query_generation_response = NoneRec
  /\ queries = <<>>
  /\ query_research_goals = <<>>
  /\ idx = 0
  /\ wstatus = <<>>
  /\ search_result_text = NoneRec
  /\ all_learnings = <<>>
  /\ search_results_by_query = <<>>
  /\ gen_calls = 0
  /\ report_input = <<>>
  /\ final_report = NoneRec
  /\ urls = <<>>
  /\ generated = <<>>
  /\ final_response = <<>>

-----------------------------------------------------------------------------
(* The Discord bot: discord_bot.py *)

\* Discord messages the bot receives in one run
MaxEvents == 6
\* invocations of !direct_chat per channel
MaxListeners == 2
\* coroutines that may be in progress when the bot takes the next message
MaxInFlight == 1
\* events one run of the classifier yields at most
MaxRunEvents == 2

\* user_message_history[discord_user_id][-10:]
HistoryLimit == 10

\* f"discord_{ctx.author.id}"
Users == {"u1", "u2"}
\* ctx.channel.id
Channels == {"c1", "c2"}

\* everything the bot's commands leave alone
pipeline == <<ctl, svars, tvars, rvars, wvars, attempts, pvars>>

\* user_message_history.get(discord_user_id, [])
HistoryOf(d, u) == IF u \in DOMAIN d THEN d[u] ELSE <<>>
\* user_message_history[discord_user_id] = v
Put(d, u, v) == [k \in DOMAIN d \cup {u} |-> IF k = u THEN v ELSE d[k]]

\* discord_bot.py 364-365, 754-755: if len(history) > 10: history[-10:]
LastTen(h) ==
  IF Len(h) > HistoryLimit
    THEN SubSeq(h, Len(h) - HistoryLimit + 1, Len(h))
    ELSE h

\* ---- QueryDispatcher.dispatch ----

\* the four categories of the pattern
Categories == {"KNOWLEDGE_BASE", "WEB_SEARCH", "RESEARCH", "CHAT"}

\* texts of a final response, as tokens: a word, ":" or " "
ClassifierTexts ==
  { <<"WEB_SEARCH", ":", "needs", "news">>,
    <<"KNOWLEDGE_BASE", ":">>,
    <<"RESEARCH", ":", "deep">>,
    <<"CHAT", ":", "greeting">>,
    <<"RESEARCH">>,
    <<"I", "choose", "WEB_SEARCH", ":", "news">>,
    <<"IMAGE", ":", "draw">>,
    <<>> }

\* an event of runner.run: is_final_response() and content.parts[0].text
RunEvents ==
  {[final |-> FALSE, text |-> <<"thinking">>]}
    \cup {[final |-> TRUE, text |-> t] : t \in ClassifierTexts}

\* what runner.run can yield
ClassifierRuns == SeqsUpTo(RunEvents, MaxRunEvents)

RECURSIVE LastFinal(_, _)
\* lines 108-111: final_response = None, then the text of every final
\* response in turn, the last one staying
LastFinal(evts, final) ==
  IF evts = <<>> THEN final
  ELSE LastFinal(Tail(evts),
                 IF Head(evts).final THEN [text |-> Head(evts).text]
                                     ELSE final)

\* re.match(r"(KNOWLEDGE_BASE|WEB_SEARCH|RESEARCH|CHAT):\s*(.*)", text)
Matches(text) ==
  /\ Len(text) >= 2
  /\ text[1] \in Categories
  /\ text[2] = ":"

\* lines 92-123: the value dispatch returns, or the exception that leaves it
Dispatch(evts) ==
  LET final == LastFinal(evts, NoneRec)
  IN IF final = NoneRec
       THEN [raised |-> "TypeError"]
       ELSE IF Matches(final.text)
         THEN [raised |-> "none",
               category |-> final.text[1],
               explanation |-> SubSeq(final.text, 3,
                                      Len(final.text))]
         ELSE [raised |-> "none",
               category |-> "CHAT",
               explanation |-> <<"Default handling as chat interaction.">>]

\* every way a dispatch can end
DispatchOutcomes == {Dispatch(r) : r \in ClassifierRuns}

\* lines 92-123: dispatch runs on the events of the classifier
DispatchCall ==
  /\ entry = "dispatch"
  /\ dispatched = NoneRec
  /\ dispatched' = Dispatch(events)
  /\ UNCHANGED <<events, message, sent, cpc, message_history, memory_lookup,
                 context>>
  /\ UNCHANGED <<pipeline, hvars>>

\* ---- commands and listeners ----

\* the coroutines a message starts, each awaiting its first send
Accepts(new) ==
  /\ Cardinality(handlers) < MaxInFlight
  /\ new \cap handlers = {}

\* the coroutine of a command
Started(k, u) ==
  [kind |-> k, user |-> u, listener |-> 0, phase |-> "start", last |-> FALSE]

\* the coroutines of the listeners registered for channel c
Listening(u, c) ==
  {[kind |-> "direct_chat_handler", user |-> u, listener |-> k,
    phase |-> "start", last |-> TRUE] : k \in 1..listeners[c]}

\* lines 337-351: !ask arrives and the command sends its first notice
AskCommand(u) ==
  /\ entry = "bot"
  /\ nevents < MaxEvents /\ Accepts({Started("ask", u)})
  /\ nevents' = nevents + 1
  /\ cleared' = cleared \ {u}
  /\ handlers' = handlers \cup {Started("ask", u)}
  /\ UNCHANGED <<user_message_history, listeners, last_message,
                 last_entries, last_replies>>
  /\ UNCHANGED <<pipeline, fvars>>

\* lines 565-571, 626-632, 672-678: a force command arrives and sends its
\* first notice
ForceCommand(u, cmd) ==
  /\ entry = "bot"
  /\ nevents < MaxEvents /\ Accepts({Started(cmd, u)})
  /\ nevents' = nevents + 1
  /\ cleared' = cleared \ {u}
  /\ handlers' = handlers \cup {Started(cmd, u)}
  /\ UNCHANGED <<user_message_history, listeners, last_message,
                 last_entries, last_replies>>
  /\ UNCHANGED <<pipeline, fvars>>

\* lines 871-896: !clear_memory; nothing is awaited before line 881
ClearMemory(u) ==
  /\ entry = "bot"
  /\ nevents < MaxEvents
  /\ nevents' = nevents + 1
  /\ cleared' = cleared \cup {u}
  /\ user_message_history' =
       IF u \in DOMAIN user_message_history
         THEN Put(user_message_history, u, <<>>)
         ELSE user_message_history
  /\ UNCHANGED <<handlers, listeners, last_message, last_entries,
                 last_replies>>
  /\ UNCHANGED <<pipeline, fvars>>

\* lines 719-728: !direct_chat in channel c; every invocation defines a new
\* direct_chat_handler and adds it to the listeners of on_message
DirectChat(c) ==
  /\ entry = "bot"
  /\ nevents < MaxEvents /\ listeners[c] < MaxListeners
  /\ nevents' = nevents + 1
  /\ UNCHANGED cleared
  /\ listeners' = [listeners EXCEPT ![c] = @ + 1]
  /\ UNCHANGED <<user_message_history, handlers, last_message,
                 last_entries, last_replies>>
  /\ UNCHANGED <<pipeline, fvars>>

\* lines 727-738: a message of user u that does not start with "!" arrives
\* in channel c; every listener registered for c goes on to line 739, the
\* listeners of other channels return at line 731
UserMessage(u, c) ==
  /\ entry = "bot"
  /\ nevents < MaxEvents /\ Accepts(Listening(u, c))
  /\ nevents' = nevents + 1
  /\ cleared' = IF listeners[c] > 0 THEN cleared \ {u} ELSE cleared
  /\ IF listeners[c] > 0
       THEN /\ handlers' = {[h EXCEPT !.last = FALSE] : h \in handlers}
                             \cup Listening(u, c)
            /\ last_message' = TRUE
            /\ last_entries' = 0
            /\ last_replies' = 0
       ELSE UNCHANGED <<handlers, last_message, last_entries, last_replies>>
  /\ UNCHANGED <<user_message_history, listeners>>
  /\ UNCHANGED <<pipeline, fvars>>

\* lines 730-731: a message the bot itself sent arrives in channel c; every
\* listener returns
BotMessage(c) ==
  /\ entry = "bot"
  /\ nevents < MaxEvents
  /\ nevents' = nevents + 1
  /\ UNCHANGED cleared
  /\ UNCHANGED <<user_message_history, handlers, listeners, last_message,
                 last_entries, last_replies>>
  /\ UNCHANGED <<pipeline, fvars>>

\* the commands that keep the history to its last ten messages
Trimming == {"ask", "direct_chat_handler"}

\* lines 353-365, 577-585, 638-646, 684-692, 742-755: the first await is
\* over, the coroutine appends the query and (ask and direct chat only)
\* cuts the history to its last ten messages
AppendQuery(h) ==
  /\ entry = "bot"
  /\ h \in handlers /\ h.phase = "start"
  /\ LET appended == Append(HistoryOf(user_message_history, h.user), "user")
     IN user_message_history' =
          Put(user_message_history, h.user,
              IF h.kind \in Trimming THEN LastTen(appended) ELSE appended)
  /\ handlers' = (handlers \ {h}) \cup {[h EXCEPT !.phase = "run"]}
  /\ last_entries' =
       IF h.last THEN last_entries + 1 ELSE last_entries
  /\ UNCHANGED <<listeners, nevents, last_message, last_replies>>
  /\ UNCHANGED cleared
  /\ UNCHANGED <<pipeline, fvars>>

\* the commands that ask the dispatcher for a category
Dispatching == {"ask", "direct_chat_handler"}

\* TRUE when the coroutine gets as far as appending the agent's response:
\* dispatch returned, the category is one the coroutine answers itself
\* (lines 810-812: direct chat refuses RESEARCH) and the agent did not raise
Answers(h, d, ok) ==
  /\ ok
  /\ h.kind \in Dispatching =>
       /\ d.raised = "none"
       /\ ~(h.kind = "direct_chat_handler" /\ d.category = "RESEARCH")

\* lines 367-543, 587-624, 648-670, 694-717, 757-835: the rest of the
\* coroutine.  It appends the response (lines 390, 432, 459, 487, 501, 526,
\* 610, 656, 703, 815) unless an exception or a return came first; a direct
\* chat handler replies once either way
Finish(h) ==
  /\ entry = "bot"
  /\ h \in handlers /\ h.phase = "run"
  /\ \E d \in DispatchOutcomes, ok \in BOOLEAN :
       user_message_history' =
         IF Answers(h, d, ok)
           THEN Put(user_message_history, h.user,
                    Append(HistoryOf(user_message_history, h.user),
                           "assistant"))
           ELSE user_message_history
  /\ handlers' = handlers \ {h}
  /\ last_replies' =
       IF h.last THEN last_replies + 1 ELSE last_replies
  /\ UNCHANGED <<listeners, nevents, last_message, last_entries>>
  /\ UNCHANGED cleared
  /\ UNCHANGED <<pipeline, fvars>>

\* ---- send_chunked_message ----

\* chunks of the longest message tried
MaxChunks == 5

\* message[i:i+1900]
ChunkSize == 1900
\* Discord refuses a message of more than 2000 characters
DiscordLimit == 2000

\* the message argument: None, or a text known by its length, whose
\* characters are numbered 0 .. len-1
Messages ==
  {NoneRec} \cup
  {[len |-> k * ChunkSize + d] :
     k \in 0..(MaxChunks - 1), d \in {0, 1, 100, ChunkSize - 1}}

\* characters of the decimal numeral of n
Digits(n) == IF n < 10 THEN 1 ELSE IF n < 100 THEN 2 ELSE 3

\* message[a:b] of a text of n characters: the characters a .. b-1, the end
\* clamped to the text
Slice(n, a, b) == [kind |-> "text", from |-> Min(a, n), to |-> Min(b, n)]

\* len(chunks): one chunk per start in range(0, len(message), 1900)
NumChunks(n) == (n + ChunkSize - 1) \div ChunkSize

\* chunks that each take 2001 characters from their start
ChunksOverlapping(n) ==
  [i \in 1..NumChunks(n) |->
     Slice(n, (i - 1) * ChunkSize, (i - 1) * ChunkSize + DiscordLimit + 1)]

\* line 557: [message[i:i+1900] for i in range(0, len(message), 1900)]
Chunks(n) ==
  [i \in 1..NumChunks(n) |->
     Slice(n, (i - 1) * ChunkSize, (i - 1) * ChunkSize + ChunkSize)]

\* line 550: "No response generated."
Notice == [kind |-> "notice", len |-> 22]
\* line 558: f"Response (part 1/{len(chunks)}):"
FirstHeader(n) == [kind |-> "header", part |-> 1, len |-> 17 + Digits(n) + 2]
\* line 562: f"Part {i}/{len(chunks)}:"
PartHeader(i, n) ==
  [kind |-> "header", part |-> i, len |-> 5 + Digits(i) + 1 + Digits(n) + 1]

\* characters of a payload
PayloadLen(p) == IF p.kind = "text" THEN p.to - p.from ELSE p.len

\* the content chunks among the payloads, in sending order
TextsOf(s) == SelectSeq(s, LAMBDA p : p.kind = "text")

\* lines 549-557: the call; not message -> the notice, a short message ->
\* the message itself, both in one send
ChunkedCall ==
  /\ entry = "send_chunked_message"
  /\ cpc = "idle"
  /\ IF message = NoneRec \/ message.len = 0
       THEN sent' = Append(sent, Notice) /\ cpc' = "done"
       ELSE IF message.len <= ChunkSize
         THEN /\ sent' = Append(sent, Slice(message.len, 0, message.len))
              /\ cpc' = "done"
         ELSE sent' = sent /\ cpc' = "header"
  /\ UNCHANGED <<events, dispatched, message, message_history, memory_lookup,
                 context>>
  /\ UNCHANGED <<pipeline, hvars>>

\* lines 558 and 562: the header that precedes the next chunk
ChunkedHeader ==
  /\ entry = "send_chunked_message"
  /\ cpc = "header"
  /\ LET n == Len(Chunks(message.len))
         i == Len(TextsOf(sent)) + 1
     IN sent' = Append(sent, IF i = 1 THEN FirstHeader(n) ELSE PartHeader(i, n))
  /\ cpc' = "chunk"
  /\ UNCHANGED <<events, dispatched, message, message_history, memory_lookup,
                 context>>
  /\ UNCHANGED <<pipeline, hvars>>

\* lines 559 and 563: the next chunk; after the last one the function returns
ChunkedChunk ==
  /\ entry = "send_chunked_message"
  /\ cpc = "chunk"
  /\ LET chunks == Chunks(message.len)
         i == Len(TextsOf(sent)) + 1
     IN /\ sent' = Append(sent, chunks[i])
        /\ cpc' = IF i = Len(chunks) THEN "done" ELSE "header"
  /\ UNCHANGED <<events, dispatched, message, message_history, memory_lookup,
                 context>>
  /\ UNCHANGED <<pipeline, hvars>>

\* ---- get_conversation_context (shared_utils.py) ----

\* messages of the longest history tried
MaxHistoryLen == 7

\* message_history[-5:]
RecentLimit == 5

\* the roles the bot writes into a history
Roles == {"user", "assistant"}

\* histories as the commands build them: message k has content k
Histories(n) ==
  {[k \in 1..n |-> [role |-> r[k], content |-> k]] : r \in [1..n -> Roles]}

\* the message_history argument: None or a list
HistoryArguments ==
  {NoneRec} \cup
  {[list |-> h] : h \in UNION {Histories(n) : n \in 0..MaxHistoryLen}}

\* how mem0_instance.search goes: there is no instance, it finds memories,
\* it finds none, or it raises
MemoryLookups == {"no_instance", "found", "empty", "raises"}

\* str.capitalize() of a role
Capitalize(role) == IF role = "user" THEN "User" ELSE "Assistant"

\* the first five messages instead of the last five
RecentMessagesFromStart(h) ==
  IF Len(h) >= RecentLimit THEN SubSeq(h, 1, RecentLimit) ELSE h

\* line 22: message_history[-5:] if len(message_history) >= 5 else
\* message_history
RecentMessages(h) ==
  IF Len(h) >= RecentLimit
    THEN SubSeq(h, Len(h) - RecentLimit + 1, Len(h))
    ELSE h

\* lines 20-27: the lines about the recent conversation
HistoryPart(mh) ==
  IF mh # NoneRec /\ Len(mh.list) > 0
    THEN <<[kind |-> "recent_heading"]>> \o
         [k \in 1..Len(RecentMessages(mh.list)) |->
            [kind |-> "message",
             role |-> Capitalize(RecentMessages(mh.list)[k].role),
             content |-> RecentMessages(mh.list)[k].content]]
    ELSE <<[kind |-> "no_history"]>>

\* lines 30-56: the lines about the memories; an exception of the search is
\* caught at line 53 and becomes a note
MemoryPart(lookup) ==
  IF lookup = "found"
    THEN [raised |-> "none",
          lines |-> <<[kind |-> "memories_heading"], [kind |-> "memory"]>>]
  ELSE IF lookup = "raises"
    THEN [raised |-> "none", lines |-> <<[kind |-> "note"]>>]
    ELSE [raised |-> "none", lines |-> <<[kind |-> "no_memories"]>>]

\* lines 4-61: the text returned, line by line, or the exception that
\* leaves the function
GetConversationContext(mh, lookup) ==
  IF MemoryPart(lookup).raised # "none"
    THEN [raised |-> MemoryPart(lookup).raised, lines |-> <<>>]
    ELSE [raised |-> "none",
          lines |-> <<[kind |-> "greeting"]>> \o HistoryPart(mh)
                      \o MemoryPart(lookup).lines
                      \o <<[kind |-> "date_time"]>>]

\* lines 4-61: one call
ContextCall ==
  /\ entry = "get_conversation_context"
  /\ context = NoneRec
  /\ context' = GetConversationContext(message_history, memory_lookup)
  /\ UNCHANGED <<events, dispatched, message, sent, cpc, message_history,
                 memory_lookup>>
  /\ UNCHANGED <<pipeline, hvars>>

\* discord_bot.py 335: the bot has just started, nothing was asked of it
BotIdle ==
  /\ user_message_history = [u \in {} |-> <<>>]
  /\ handlers = {}
  /\ listeners = [c \in Channels |-> 0]
  /\ nevents = 0
  /\ last_message = FALSE /\ last_entries = 0 /\ last_replies = 0
  /\ cleared = {}

\* no helper function of the bot has been called
HelpersIdle ==
  /\ events = <<>> /\ dispatched = NoneRec
  /\ message = NoneRec /\ sent = <<>> /\ cpc = "idle"
  /\ message_history = NoneRec /\ memory_lookup = None /\ context = NoneRec

\* run_parallel_research
Init == entry = "research" /\ InitCommon /\ BotIdle /\ HelpersIdle

Next ==
  \/ RStart
  \/ RPlanReturn
  \/ RWorkerStart
  \/ ToolCall
  \/ SasPrimaryReply
  \/ SasFallbackReply
  \/ SasDelayElapsed
  \/ \E k \in 1..MaxResults : ScrapeDownload(k)
  \/ \E k \in 1..MaxResults : ScrapeParse(k)
  \/ SasGatherDone
  \/ Tick
  \/ ToolTimeout
  \/ \E url \in Urls : ThreadEnds(url)
  \/ ToolReturn
  \/ RWorkerReturn
  \/ RSynthStart
  \/ RSynthReturn

Spec == Init /\ [][Next]_vars

\* WebSearchAgent.search
InitWeb == entry = "web_search" /\ InitCommon /\ BotIdle /\ HelpersIdle

NextWeb ==
  \/ WsCall
  \/ SasPrimaryReply
  \/ SasFallbackReply
  \/ SasDelayElapsed
  \/ \E k \in 1..MaxResults : ScrapeDownload(k)
  \/ \E k \in 1..MaxResults : ScrapeParse(k)
  \/ SasGatherDone
  \/ WsCollect
  \/ WsGenerate

SpecWeb == InitWeb /\ [][NextWeb]_vars

\* both pipelines: run_parallel_research or WebSearchAgent.search
InitPipelines ==
  entry \in {"research", "web_search"} /\ InitCommon /\ BotIdle /\ HelpersIdle

NextPipelines ==
  \/ Next
  \/ WsCall
  \/ WsCollect
  \/ WsGenerate

SpecPipelines == InitPipelines /\ [][NextPipelines]_vars

\* SearXNGClient.search_and_scrape
InitSearch ==
  entry = "search_and_scrape" /\ InitCommon /\ BotIdle /\ HelpersIdle

NextSearch ==
  \/ DirectCall
  \/ SasPrimaryReply
  \/ SasFallbackReply
  \/ SasDelayElapsed
  \/ \E k \in 1..MaxResults : ScrapeDownload(k)
  \/ \E k \in 1..MaxResults : ScrapeParse(k)
  \/ SasGatherDone
  \/ DirectReturn

SpecSearch == InitSearch /\ [][NextSearch]_vars

\* the bot's commands and its direct chat listeners
InitBot == entry = "bot" /\ InitCommon /\ BotIdle /\ HelpersIdle

ForceCommands == {"force_search", "force_research", "force_knowledge"}

NextBot ==
  \/ \E u \in Users : AskCommand(u)
  \/ \E u \in Users, cmd \in ForceCommands : ForceCommand(u, cmd)
  \/ \E u \in Users : ClearMemory(u)
  \/ \E c \in Channels : DirectChat(c)
  \/ \E u \in Users, c \in Channels : UserMessage(u, c)
  \/ \E c \in Channels : BotMessage(c)
  \/ \E h \in handlers : AppendQuery(h)
  \/ \E h \in handlers : Finish(h)

SpecBot == InitBot /\ [][NextBot]_vars

\* QueryDispatcher.dispatch on every run of the classifier
InitDispatch ==
  /\ entry = "dispatch" /\ InitCommon /\ BotIdle
  /\ events \in ClassifierRuns /\ dispatched = NoneRec
  /\ message = NoneRec /\ sent = <<>> /\ cpc = "idle"
  /\ message_history = NoneRec /\ memory_lookup = None /\ context = NoneRec

NextDispatch == DispatchCall

SpecDispatch == InitDispatch /\ [][NextDispatch]_vars

\* send_chunked_message on every message
InitChunked ==
  /\ entry = "send_chunked_message" /\ InitCommon /\ BotIdle
  /\ events = <<>> /\ dispatched = NoneRec
  /\ message \in Messages /\ sent = <<>> /\ cpc = "idle"
  /\ message_history = NoneRec /\ memory_lookup = None /\ context = NoneRec

NextChunked ==
  \/ ChunkedCall
  \/ ChunkedHeader
  \/ ChunkedChunk

SpecChunked == InitChunked /\ [][NextChunked]_vars

\* get_conversation_context on every history and memory lookup
InitContext ==
  /\ entry = "get_conversation_context" /\ InitCommon /\ BotIdle
  /\ events = <<>> /\ dispatched = NoneRec
  /\ message = NoneRec /\ sent = <<>> /\ cpc = "idle"
  /\ message_history \in HistoryArguments
  /\ memory_lookup \in MemoryLookups
  /\ context = NoneRec

NextContext == ContextCall

SpecContext == InitContext /\ [][NextContext]_vars

-----------------------------------------------------------------------------
(* Properties *)

\* the list a planner response proposes under "queries", read off the
\* response without the extraction code: every planner text holds at most one
\* JSON object
ProposedQueries(resp) ==
  IF "text" \notin DOMAIN resp THEN <<>>
  ELSE LET holders == {k \in 1..Len(resp.text) :
                         /\ resp.text[k] \in Members
                         /\ "queries" \in DOMAIN MemberObj(resp.text[k])
                         /\ MemberObj(resp.text[k]).queries.list}
       IN IF holders = {} THEN <<>>
          ELSE MemberObj(resp.text[SetMin(holders)]).queries.items

\* the planner has just returned: its response and the extracted queries are
\* both in view
Planned == entry = "research" /\ pc = "loop" /\ idx = 1

QueryTexts == [k \in 1..Len(queries) |-> QueryOf(queries[k])]

\* C1 as stated: the list of queries that is searched has at most 2 entries,
\* also when the planner proposes more than 2.
C1_AtMostTwoQueries == Len(queries) <= 2

\* the planner text holds one brace-delimited span only
SingleObject(resp) ==
  /\ "text" \in DOMAIN resp
  /\ Cardinality({k \in 1..Len(resp.text) : resp.text[k] = "lb"}) = 1

\* C1 amended: the list of queries that is searched is not cut: it is either
\* the whole list the planner proposed, in order and however long, or the
\* fallback list of exactly 3 entries; it is the proposed list whenever the
\* planner text holds that one object only and the list is not empty.
C1_QueriesNotCapped ==
  Planned =>
    LET proposed == ProposedQueries(query_generation_response)
    IN /\ \/ (proposed # <<>> /\ queries = proposed)
          \/ Len(queries) = 3
       /\ proposed = <<>> => Len(queries) = 3
       /\ (SingleObject(query_generation_response) /\ proposed # <<>>) =>
            queries = proposed

\* the planner proposed three queries and all three are searched
C1_Witness ==
  /\ Planned
  /\ Len(ProposedQueries(query_generation_response)) = 3
  /\ Len(queries) = 3

\* C2 as stated: when the planner response yields no query (no response, no
\* JSON, invalid JSON, no "queries" list, an empty list) the list of queries
\* is the single query whose text is the research goal.
C2_FallbackIsGoal ==
  (Planned /\ ProposedQueries(query_generation_response) = <<>>) =>
    QueryTexts = <<research_goal>>

\* C2 amended: when the planner response yields no query, the list of queries
\* is exactly three queries: the research goal followed by " overview",
\* " analysis" and " impact".
C2_FallbackIsThreeGoalQueries ==
  (Planned /\ ProposedQueries(query_generation_response) = <<>>) =>
    QueryTexts = <<research_goal \o " overview",
                   research_goal \o " analysis",
                   research_goal \o " impact">>

\* the planner answered with JSON that is not valid and the fallback is in place
C2_Witness ==
  /\ Planned
  /\ query_generation_response = Text(<<"fo", "lb", "bad", "rb", "fc">>)
  /\ Len(queries) = 3

\* C3: search_and_scrape never raises; whatever the aggregator answers and
\* however each scrape ends, the value it returns has "organic" or "error".
C3_SearchAndScrapeNeverRaises ==
  /\ spc # "raised"
  /\ raised = "none"
  /\ spc = "returned" => ("organic" \in DOMAIN sret \/ "error" \in DOMAIN sret)

\* the first search failed, the fallback answered, and a scrape failed
C3_Witness ==
  /\ entry = "search_and_scrape" /\ pc = "done"
  /\ nreq = 2
  /\ "organic" \in DOMAIN sret
  /\ \E k \in 1..Len(sret.organic) : ~sret.organic[k].scraped_content.success

\* the lines appended to the generated text
Appended ==
  SubSeq(final_response, Len(generated) + 1, Len(final_response))

WebReturned == entry = "web_search" /\ pc = "done" /\ raised = "none"

\* C4: every url of the final source list is the link of an organic entry
\* whose scrape succeeded; urls of failed scrapes and urls that only the
\* generated text mentions are not in it.
C4_SourcesWereScraped ==
  /\ \A k \in 1..Len(urls) : urls[k] \in SuccessLinks(Organic(sret))
  /\ WebReturned =>
       \A k \in 2..Len(Appended) :
         \E u \in SuccessLinks(Organic(sret)) : Appended[k] = "- " \o u

\* one scrape failed, one succeeded, and the generated text names a url of
\* its own
C4_Witness ==
  /\ WebReturned
  /\ urls # <<>>
  /\ \E k \in 1..Len(sret.organic) : ~sret.organic[k].scraped_content.success
  /\ \E k \in 1..Len(generated) : generated[k] = "- ux"

\* lexicographic order of the model's urls
UrlRank(u) == IF u = "ua" THEN 1 ELSE 2

\* the first successfully scraped organic entry with link u
FirstScraped(u) ==
  SetMin({k \in 1..Len(Organic(sret)) :
            /\ "scraped_content" \in DOMAIN Organic(sret)[k]
            /\ Organic(sret)[k].scraped_content.success
            /\ Organic(sret)[k].link = u})

\* C5 as stated: the final source list has no duplicate and is in ascending
\* lexicographic order.
C5_SourcesSorted ==
  \A j, k \in 1..Len(urls) : j < k => UrlRank(urls[j]) < UrlRank(urls[k])

\* C5 amended: the final source list has no duplicate url and keeps the order
\* in which the urls first occur among the successfully scraped organic
\* entries; it is not sorted.
C5_SourcesDedupedInArrivalOrder ==
  (entry = "web_search" /\ pc \in {"generate", "done"}
     /\ raised # "search_and_scrape") =>
    /\ \A j, k \in 1..Len(urls) : j < k => urls[j] # urls[k]
    /\ {urls[k] : k \in 1..Len(urls)} = SuccessLinks(Organic(sret))
    /\ \A j, k \in 1..Len(urls) :
         j < k => FirstScraped(urls[j]) < FirstScraped(urls[k])

\* the same url was scraped twice and is listed once
C5_Witness ==
  /\ entry = "web_search" /\ pc = "done"
  /\ Len(Organic(sret)) = 2
  /\ sret.organic[1].link = sret.organic[2].link
  /\ sret.organic[1].scraped_content.success
  /\ sret.organic[2].scraped_content.success
  /\ Len(urls) = 1

\* the appended lines are the section for urls, and nothing when urls is empty
WebSourcesAppended ==
  WebReturned =>
    /\ SubSeq(final_response, 1, Len(generated)) = generated
    /\ (urls = <<>> <=> Appended = <<>>)
    /\ urls # <<>> =>
         /\ Len(Appended) = Len(urls) + 1
         /\ Appended[1] = "## Sources"
         /\ \A k \in 1..Len(urls) : Appended[k + 1] = "- " \o urls[k]

HasSourcesSection(report) ==
  /\ "text" \in DOMAIN report
  /\ \E k \in 1..Len(report.text) : report.text[k] = "## Sources"

ResearchReturned == entry = "research" /\ pc = "done" /\ raised = "none"

\* C6 as stated: the returned text of either pipeline carries an appended
\* "## Sources" section exactly when its source list (the urls scraped
\* successfully) is not empty.
C6_SourcesAppendedEverywhere ==
  /\ WebSourcesAppended
  /\ ResearchReturned => (scraped_ok <=> HasSourcesSection(final_report))

\* C6 amended: WebSearchAgent.search appends a "## Sources" section after the
\* generation call has returned, exactly when its source list is not empty,
\* and the section lists exactly the urls of the deduplicated source list;
\* run_parallel_research appends no section: it returns what the report call
\* produced, unchanged.
C6_SourcesAppendedByWebSearchOnly ==
  /\ WebSourcesAppended
  /\ ResearchReturned =>
       \/ final_report = NoneRec
       \/ \E t \in SynthTexts : final_report = Text(t)

\* the generated text carries a section of its own and the real one follows
C6_Witness ==
  /\ WebReturned
  /\ urls # <<>>
  /\ \E k \in 1..Len(generated) : generated[k] = "## Sources"

AllWorkersDone == \A k \in 1..Len(wstatus) : wstatus[k] = "done"

\* C7: the planner call completes before any search worker starts, and the
\* report call is issued only after every worker has completed.
C7_StagesOrdered ==
  /\ pc \in {"start", "plan"} => (wstatus = <<>> /\ gen_calls <= 1)
  /\ (\E k \in 1..Len(wstatus) : wstatus[k] # "idle") => pc \notin {"start", "plan"}
  /\ (pc = "synth" \/ report_input # <<>> \/ final_report # NoneRec) =>
       (AllWorkersDone /\ gen_calls = Len(queries) + 2)

\* the report call is in flight after three workers
C7_Witness ==
  /\ entry = "research" /\ pc = "synth"
  /\ Len(wstatus) = 3

\* C8 as stated, in the form fan-out gives it: the workers are all started
\* before any of them is awaited, so once a worker has completed every worker
\* of the run has been started.
C8_WorkersFanOut ==
  (\E k \in 1..Len(wstatus) : wstatus[k] = "done") =>
    (\A k \in 1..Len(wstatus) : wstatus[k] # "idle")

\* C9 as stated: whatever happens in one worker, every query gets a worker
\* that runs to completion and the run reaches the report call.
C9_WorkersRunWhateverSiblingsDo ==
  (entry = "research" /\ pc = "done" /\ wstatus # <<>> /\ raised # "report") =>
    (AllWorkersDone /\ gen_calls = Len(queries) + 2)

\* C10: when search_and_scrape is still pending at the 30-unit deadline the
\* tool returns the timeout record that names its query, nothing is raised,
\* nothing is added to the sources, and the worker goes on.
\* (The return of a thread call that an earlier timeout left running is no
\* step of the tool.)
C10_TimeoutIsAbsorbed ==
  [][(pc = "tool" /\ SasPending /\ elapsed >= SearchTimeout
        /\ ~(\E url \in Urls : ThreadEnds(url))) =>
       /\ tool_result' =
            [error |-> "Search timeout for query: " \o QueryOf(queries[idx]),
             query |-> QueryOf(queries[idx])]
       /\ pc' = "worker"
       /\ raised' = "none"
       /\ scraped_ok' = scraped_ok
       /\ wstatus' = wstatus]_vars

\* the search of a worker has just timed out and the worker is to go on
C10_Witness ==
  /\ entry = "research" /\ pc = "worker"
  /\ tool_calls = 1
  /\ "error" \in DOMAIN tool_result
  /\ tool_result.error = "Search timeout for query: " \o QueryOf(queries[idx])
  /\ wstatus[idx] = "running"

\* the learnings the step appends to all_learnings
AddedLearnings ==
  SubSeq(all_learnings', Len(all_learnings) + 1, Len(all_learnings'))

\* the learnings the loop builds itself, each of which spells the query
Placeholders(query) ==
  {NoResultLearning(query), NoStructuredLearning(query)}
    \cup {RawLearning(query, t) : t \in WorkerTexts}

\* the worker of the current query returns to the loop
WorkerCompletes == entry = "research" /\ pc = "worker" /\ pc' = "loop"

\* C11 as stated: when the first and the fallback search of a worker's query
\* both returned an error, the worker adds exactly one learning, a placeholder
\* that spells the query, and no successfully scraped url.
C11_FailedSearchGivesPlaceholder ==
  [][(WorkerCompletes /\ attempts = <<"error", "error">>
        /\ "error" \in DOMAIN tool_result) =>
       /\ Len(AddedLearnings) = 1
       /\ AddedLearnings[1] \in Placeholders(QueryOf(queries[idx]))
       /\ scraped_ok' = scraped_ok]_vars

\* C12 as stated: when the search of every worker of a run timed out, the run
\* returns a non-empty report string: no exception leaves it and the value it
\* returns is not None.
C12_ReportAfterTimeouts ==
  (entry = "research" /\ pc = "done" /\ wstatus # <<>> /\ AllWorkersDone
     /\ only_timeouts) =>
    (raised = "none" /\ Truthy(final_report))

\* the findings of the report input, section after section
RECURSIVE Findings(_)
Findings(sections) ==
  IF sections = <<>> THEN <<>>
  ELSE Head(sections).findings \o Findings(Tail(sections))

\* C13 as stated: the learnings in the input of the report call are the
\* learnings of every worker, in the order of the queries and within a query
\* in the worker's order, also when two queries have the same text.
C13_ReportInputHasEveryLearning ==
  (entry = "research" /\ pc = "synth") => Findings(report_input) = all_learnings

\* the report call has been issued
ReportIssued ==
  pc = "synth" \/ (pc = "done" /\ raised \in {"none", "report"})

\* C14: every step issues its generation call exactly once: one call for the
\* planner once the body is entered (research_goal is bound), one for each
\* worker that has started, one for the report; a run
\* over n queries that returns has issued n + 2 calls, whatever its searches
\* returned.
C14_OneCallPerStep ==
  entry = "research" =>
    /\ gen_calls =
         (IF research_goal = None THEN 0 ELSE 1)
           + Cardinality({k \in 1..Len(wstatus) : wstatus[k] # "idle"})
           + (IF ReportIssued THEN 1 ELSE 0)
    /\ ResearchReturned => gen_calls = Len(queries) + 2

\* a run over three queries has returned after a search that scraped a page
C14_Witness ==
  /\ ResearchReturned
  /\ Len(queries) = 3
  /\ gen_calls = 5
  /\ scraped_ok

\* C15 as stated: a run that was given a progress callback hands it two
\* snapshots, the first on entering the search loop with completedQueries = 0
\* and the breadth fields at len(queries), the second after the loop with
\* completedQueries = len(queries).
C15_TwoProgressSnapshots ==
  (entry = "research" /\ progress_callback /\ pc = "done") =>
    /\ Len(snapshots) = 2
    /\ snapshots[1].completedQueries = 0
    /\ snapshots[1].breadth = Len(queries)
    /\ snapshots[2].completedQueries = Len(queries)

\* C15 amended: run_parallel_research has the parameters research_goal and
\* context only; a call that passes a progress callback raises TypeError before
\* any generation call, and no run hands a snapshot to anything.
C15_NoProgressEmission ==
  /\ snapshots = <<>>
  /\ progress_callback =>
       (pc = "done" /\ raised = "TypeError" /\ gen_calls = 0 /\ wstatus = <<>>)

\* a call that passed a callback has ended
C15_Witness ==
  entry = "research" /\ progress_callback /\ pc = "done" /\ raised = "TypeError"

\* the lists under "queries" of the objects held by a fenced json block
FencedQueries(t) ==
  {MemberObj(t[p + 2]).queries.items :
     p \in {q \in 1..(Len(t) - 4) :
              /\ t[q] = "fo" /\ t[q + 1] = "lb" /\ t[q + 2] \in Members
              /\ t[q + 3] = "rb" /\ t[q + 4] = "fc"
              /\ HasList(MemberObj(t[q + 2]), "queries")}}

\* C16 as stated: when the planner text holds a fenced json block with an
\* object, the queries are taken from that object, also when other text in
\* braces stands before or after the fence.
C16_FencePreferred ==
  (Planned /\ "text" \in DOMAIN query_generation_response) =>
    \A fenced \in FencedQueries(query_generation_response.text) :
      fenced # <<>> => queries = fenced

\* every list that stands under "queries" in an object of the text
ListsInText(resp) ==
  IF "text" \notin DOMAIN resp THEN {}
  ELSE {MemberObj(resp.text[k]).queries.items :
          k \in {j \in 1..Len(resp.text) :
                   /\ resp.text[j] \in Members
                   /\ HasList(MemberObj(resp.text[j]), "queries")}}

\* C17: extraction of the queries never raises: whatever the planner response
\* is (absent, prose, invalid JSON, an object without "queries", a value that
\* is not a list), the run goes on with a list found under "queries" in the
\* response or, the extracted list being empty, with the fallback queries.
C17_ExtractionNeverRaises ==
  /\ raised # "extraction"
  /\ Planned =>
       \/ queries \in ListsInText(query_generation_response) \ {<<>>}
       \/ queries = FallbackQueries(research_goal)

\* the planner call gave no response and the run went on
C17_Witness ==
  /\ Planned
  /\ query_generation_response = NoneRec
  /\ queries = FallbackQueries(research_goal)

\* C18 as stated, for the aggregation point: the state the workers share
\* (all_learnings and search_results_by_query) is touched only after every
\* worker of the run has completed.
C18_AggregationAfterAllWorkers ==
  (entry = "research" /\ (all_learnings # <<>> \/ search_results_by_query # <<>>)) =>
    AllWorkersDone

\* C19: a call of search_and_scrape issues at most two GETs: the first without
\* an engines parameter; a second one, with 3 engines of the fallback list,
\* exactly when the first returned an error or no organic entry; never a third.
C19_AtMostTwoRequests ==
  spc # "idle" =>
    /\ nreq \in {1, 2}
    /\ spc = "primary" => (nreq = 1 /\ req.engines = {} /\ attempts = <<>>)
    /\ spc = "fallback" =>
         /\ nreq = 2 /\ Len(attempts) = 1
         /\ req.engines \subseteq fallback_engines
         /\ Cardinality(req.engines) = 3
    /\ spc \notin {"primary", "fallback"} => Len(attempts) = nreq
    /\ attempts # <<>> => (nreq = 2 <=> attempts[1] \in {"error", "empty"})

\* the first GET found nothing, the second found entries, and the call returned
C19_Witness ==
  /\ entry = "search_and_scrape"
  /\ spc = "returned"
  /\ nreq = 2
  /\ attempts = <<"empty", "organic">>

\* C20 as stated: when the first and the fallback search both returned an
\* error or no organic entry, the outcome search_and_scrape returns has
\* "error" set.
C20_ErrorWhenBothAttemptsFail ==
  (spc = "returned" /\ Len(attempts) = 2 /\ attempts[2] \in {"error", "empty"}) =>
    "error" \in DOMAIN sret

\* C20 amended: an outcome without organic entries is returned only after both
\* searches, and it is the fallback search's outcome as it stands: it has
\* "error" set when the fallback search failed, and it is a success-shaped
\* outcome with an empty "organic" list and no "error" when the fallback
\* search returned no entry.
C20_FallbackOutcomeReturnedAsIs ==
  (spc = "returned" /\ Organic(sret) = <<>>) =>
    /\ nreq = 2 /\ Len(attempts) = 2
    /\ attempts[1] \in {"error", "empty"}
    /\ attempts[2] \in {"error", "empty"}
    /\ attempts[2] = "error" <=> "error" \in DOMAIN sret
    /\ attempts[2] = "empty" =>
         ("organic" \in DOMAIN sret /\ sret.organic = <<>>)

\* both searches ended without entries, the second one without an error
C20_Witness ==
  /\ entry = "search_and_scrape"
  /\ spc = "returned"
  /\ attempts = <<"error", "empty">>
  /\ "organic" \in DOMAIN sret
  /\ "error" \notin DOMAIN sret

\* the fallback pool as the claim lists it
NamedFallbackPool ==
  {"duckduckgo", "bing", "brave", "ecosia", "startpage",
   "yahoo", "qwant", "mojeek", "wikipedia"}

\* C21: the fallback GET names exactly 3 distinct engines, all of them in the
\* pool duckduckgo, bing, brave, ecosia, startpage, yahoo, qwant, mojeek,
\* wikipedia; no GET of a call names google.
C21_FallbackEnginesFromPool ==
  /\ spc = "fallback" =>
       /\ Cardinality(req.engines) = 3
       /\ req.engines \subseteq NamedFallbackPool
  /\ "engines" \in DOMAIN req => "google" \notin req.engines

\* the fallback GET is in flight, naming three engines
C21_Witness ==
  /\ entry = "search_and_scrape"
  /\ spc = "fallback"
  /\ nreq = 2
  /\ req.engines = {"duckduckgo", "mojeek", "wikipedia"}

\* C22: search never raises and what it returns has exactly one of two
\* shapes: after a response that is not 200, or an exception of the transport
\* or of the reshaping, it has "error" and no "organic"; after a 200 response
\* that was reshaped it has "organic" and no "error".
C22_SearchOutcomeShapes ==
  /\ spc # "raised"
  /\ "kind" \in DOMAIN response =>
       /\ response.kind = "ok" =>
            ("organic" \in DOMAIN search_results /\ "error" \notin DOMAIN search_results)
       /\ response.kind # "ok" =>
            ("error" \in DOMAIN search_results /\ "organic" \notin DOMAIN search_results)

\* the first GET was answered with 200 and no result, the second with 500
C22_Witness ==
  /\ entry = "search_and_scrape"
  /\ attempts = <<"empty", "error">>
  /\ response.kind = "status500"
  /\ "error" \in DOMAIN sret

\* C23: when the outcome is an error after the fallback search, the call
\* returns that outcome as search returned it and starts no scrape; scrapes
\* are started only for the organic links of the outcome that is returned, one
\* per organic entry and in the order of the entries.
C23_ScrapesOnlyForReturnedOrganic ==
  /\ spc \in {"idle", "primary", "fallback"} => scrape_tasks = <<>>
  /\ Len(scrape_tasks) <= Len(Organic(search_results))
  /\ \A k \in 1..Len(scrape_tasks) :
       scrape_tasks[k].url = Organic(search_results)[k].link
  /\ spc = "returned" =>
       /\ Len(scrape_tasks) = Len(Organic(sret))
       /\ \A k \in 1..Len(scrape_tasks) :
            scrape_tasks[k].url = sret.organic[k].link
       /\ "error" \in DOMAIN sret =>
            (scrape_tasks = <<>> /\ sret = Search(response, smax).value)

\* both searches failed and the call has returned the second error
C23_Witness ==
  /\ entry = "search_and_scrape"
  /\ spc = "returned"
  /\ attempts = <<"error", "error">>
  /\ response.kind = "connect_error"
  /\ sret = [error |-> "Cannot connect to SearXNG"]
  /\ scrape_tasks = <<>>

\* what entry k carries when its own scrape ended with the given success
OwnContent(link, success) ==
  IF success THEN ScrapeOk(link) ELSE ScrapeFailed(link)

\* C24: after a call that returns organic entries, entry k carries the outcome
\* of scrape k, its url is the link of entry k, and it is what the scrape of
\* that link alone makes it: a failed scrape of another entry changes nothing.
C24_OutcomeAttachedToItsEntry ==
  (spc = "returned" /\ Organic(sret) # <<>>) =>
    \A k \in 1..Len(sret.organic) :
      /\ "scraped_content" \in DOMAIN sret.organic[k]
      /\ sret.organic[k].scraped_content = scrape_tasks[k].result
      /\ sret.organic[k].scraped_content.url = sret.organic[k].link
      /\ sret.organic[k].scraped_content =
           OwnContent(sret.organic[k].link, scrape_tasks[k].result.success)

\* two entries with different links: the first scrape failed, the second did not
C24_Witness ==
  /\ entry = "search_and_scrape"
  /\ spc = "returned"
  /\ Len(Organic(sret)) = 2
  /\ sret.organic[1].link # sret.organic[2].link
  /\ sret.organic[1].scraped_content = ScrapeFailed(sret.organic[1].link)
  /\ sret.organic[2].scraped_content = ScrapeOk(sret.organic[2].link)

\* the scrapes of the call that have ended
EndedScrapes == {k \in 1..Len(scrape_tasks) : scrape_tasks[k].st = "done"}

\* C25: scrape_url never lets an exception out: however download and parse
\* end, it returns a record for the url it was given, in which success is
\* false exactly when "error" is set and true exactly when title and text are
\* present.
C25_ScrapeUrlReturnsRecord ==
  \A k \in EndedScrapes :
    LET result == scrape_tasks[k].result IN
    /\ "exception" \notin DOMAIN result
    /\ {"url", "success"} \subseteq DOMAIN result
    /\ result.url = scrape_tasks[k].url
    /\ ~result.success <=> "error" \in DOMAIN result
    /\ result.success <=> {"title", "text"} \subseteq DOMAIN result
    /\ result.success => {"title", "text"} \cap DOMAIN result # {}
    /\ ~result.success => {"title", "text"} \cap DOMAIN result = {}

\* one scrape of the batch has failed and the other has succeeded
C25_Witness ==
  /\ entry = "search_and_scrape"
  /\ spc = "gather"
  /\ Len(scrape_tasks) = 2
  /\ EndedScrapes = {1, 2}
  /\ scrape_tasks[1].result.success
  /\ "error" \in DOMAIN scrape_tasks[2].result

\* a worker of the run has been started and has not yet returned
WorkerRunning == entry = "research" /\ pc \in {"worker", "tool"}

\* C26 as stated: whenever the planner response yields a non-empty list, the
\* queries searched are the texts of its entries, in the planner's order, and
\* no worker is started with an absent query text.
C26_WorkersGetOwnQueryText ==
  /\ (Planned /\ ProposedQueries(query_generation_response) # <<>>
        /\ queries = ProposedQueries(query_generation_response)) =>
       \A k \in 1..Len(queries) :
         QueryTexts[k] = (IF queries[k].isdict THEN queries[k].query
                          ELSE queries[k].text)
  /\ WorkerRunning => QueryOf(queries[idx]) # None
  /\ (WorkerRunning /\ spc # "idle") => squery # None

\* the response of a worker is text without a JSON object, or with one that
\* is not valid JSON
NotJson(resp) ==
  /\ Truthy(resp)
  /\ \/ ~JsonMatch(resp.text).found
     \/ ~JsonLoads(JsonMatch(resp.text).json_str).ok

\* the response of a worker holds a JSON object without a "learnings" list
JsonWithoutLearnings(resp) ==
  /\ Truthy(resp)
  /\ JsonMatch(resp.text).found
  /\ JsonLoads(JsonMatch(resp.text).json_str).ok
  /\ ~HasList(JsonLoads(JsonMatch(resp.text).json_str).obj, "learnings")

\* the first 300 characters of the raw response, as a learning of the query
PrefixLearning(query, resp) ==
  "From search '" \o query \o "': " \o Render(Prefix(resp.text, 300)) \o "..."

\* C27 as stated: when the response of a worker holds no JSON object, invalid
\* JSON, or JSON without a "learnings" list, the worker adds exactly one
\* learning, built from the truncated prefix of the raw response.
C27_UnparsedGivesRawPrefix ==
  [][(WorkerCompletes
        /\ (NotJson(search_result_text') \/ JsonWithoutLearnings(search_result_text'))) =>
       AddedLearnings =
         <<PrefixLearning(QueryOf(queries[idx]), search_result_text')>>]_vars

\* C27 amended: such a worker adds exactly one learning: for a response
\* without a JSON object or with invalid JSON, the one built from the first
\* 300 characters of the raw response; for JSON without a "learnings" list,
\* the fixed text "Found information but no structured learnings." for its
\* query, which holds nothing of the response.
C27_UnparsedGivesOneLearning ==
  [][WorkerCompletes =>
       /\ NotJson(search_result_text') =>
            AddedLearnings =
              <<PrefixLearning(QueryOf(queries[idx]), search_result_text')>>
       /\ JsonWithoutLearnings(search_result_text') =>
            AddedLearnings =
              <<"From search '" \o QueryOf(queries[idx])
                  \o "': Found information but no structured learnings.">>]_vars

\* a worker answered with prose longer than the prefix and its learning was cut
C27_Witness ==
  /\ entry = "research" /\ pc = "loop" /\ idx = 2
  /\ search_result_text = Text(<<"long">>)
  /\ all_learnings = <<"From search 'qa': long[:300] ...">>

\* the planner call hands back a response (a text or None) in this step
PlannerResponds ==
  entry = "research" /\ pc = "plan" /\ raised' # "planner"

\* C28: whatever the planner response is (absent, prose, invalid JSON, JSON
\* of another shape), the step that receives it raises nothing and enters the
\* search loop at its first query with a list of queries that is not empty.
C28_PlannerDegradationNotSurfaced ==
  [][PlannerResponds =>
       /\ raised' = "none"
       /\ pc' = "loop" /\ idx' = 1
       /\ queries' # <<>>
       /\ wstatus' = [k \in 1..Len(queries') |-> "idle"]]_vars

\* the planner answered with a JSON object of another shape and the search
\* loop was entered with the fallback queries
C28_Witness ==
  /\ Planned
  /\ raised = "none"
  /\ query_generation_response = Text(<<"lb", "m_other", "rb">>)
  /\ Len(queries) = 3
  /\ wstatus = <<"idle", "idle", "idle">>

\* the findings the report input lists for a query text
FindingsFor(query) ==
  {report_input[s].findings :
     s \in {j \in 1..Len(report_input) : report_input[j].query = query}}

\* C29 as stated: once the report call is issued, every query of the list has
\* a section with at least one learning in the report input, whatever its
\* worker answered (nothing, text that does not parse, JSON without
\* learnings, JSON with an empty learnings list).
C29_EveryQueryHasALearning ==
  (entry = "research" /\ pc = "synth") =>
    \A k \in 1..Len(queries) :
      /\ FindingsFor(QueryOf(queries[k])) # {}
      /\ <<>> \notin FindingsFor(QueryOf(queries[k]))

\* the scrapes that start to run in this step
LaunchedNow ==
  {k \in 1..Len(scrape_tasks') :
     /\ scrape_tasks'[k].st # "created"
     /\ (k > Len(scrape_tasks) \/ scrape_tasks[k].st = "created")}

\* C30 as stated: the scrapes of a batch are launched one by one, each after
\* its own delay and before the delay of the next url begins: no scrape is
\* still waiting to be launched while a delay runs, and no step launches two.
C30_ScrapesStaggered ==
  [][/\ Cardinality(LaunchedNow) <= 1
     /\ spc' = "delay" =>
          \A k \in 1..Len(scrape_tasks') : scrape_tasks'[k].st # "created"]_vars

\* the deadline of the tool call passes in this step while the scrapes of its
\* batch are running
DeadlineDuringScrapes ==
  /\ entry = "research" /\ pc = "tool" /\ pc' = "worker"
  /\ spc = "gather" /\ elapsed >= SearchTimeout

\* C31 as stated: when the deadline passes while the scrape batch is in
\* flight, the scrape tasks that were started are not cancelled: they are
\* still there, as they were, after the tool has returned its timeout record.
C31_ScrapeTasksSurviveDeadline ==
  [][DeadlineDuringScrapes => scrape_tasks' = scrape_tasks]_vars

\* C31 amended: when the deadline passes while the scrape batch is in flight,
\* every scrape task of the batch is cancelled with the search task and none
\* of them produces a scraped_content; only the download or parse calls that
\* already run in a thread go on to their end, and their return changes
\* nothing but the set of calls still running.
C31_ScrapeTasksCancelledThreadsRun ==
  [][/\ DeadlineDuringScrapes =>
          /\ scrape_tasks' = <<>> /\ spc' = "idle" /\ sret' = NoneRec
          /\ stranded' =
               stranded \cup
                 {scrape_tasks[k].url :
                    k \in {j \in 1..Len(scrape_tasks) : scrape_tasks[j].st # "done"}}
          /\ "error" \in DOMAIN tool_result'
          /\ scraped_ok' = scraped_ok
     /\ (stranded' # stranded /\ stranded' \subseteq stranded) =>
          UNCHANGED <<ctl, svars, rvars, wvars, attempts, pvars, tool_calls,
                      tool_result, scraped_ok, only_timeouts>>]_vars

\* the first worker's search timed out during its scrapes: its tasks are gone
\* and a thread call of the batch is still running
C31_Witness ==
  /\ entry = "research" /\ pc = "worker" /\ idx = 1
  /\ tool_calls = 1
  /\ "error" \in DOMAIN tool_result
  /\ scrape_tasks = <<>>
  /\ stranded = {"ua", "ub"}

\* C32: the outcome of a 200 response has at most num_results organic
\* entries: the first results of the response in their order of arrival, with
\* the positions 1, 2, ..., n.
C32_OrganicInArrivalOrder ==
  ("kind" \in DOMAIN response /\ response.kind = "ok") =>
    /\ "organic" \in DOMAIN search_results
    /\ Len(search_results.organic) <= smax
    /\ Len(search_results.organic) <= Len(response.results)
    /\ (Len(search_results.organic) = smax
          \/ Len(search_results.organic) = Len(response.results))
    /\ \A k \in 1..Len(search_results.organic) :
         /\ search_results.organic[k].link = response.results[k]
         /\ search_results.organic[k].position = k

\* a response with two results was cut to the one entry asked for
C32_Witness ==
  /\ entry = "search_and_scrape"
  /\ smax = 1 /\ spc = "delay"
  /\ "kind" \in DOMAIN response
  /\ response.kind = "ok" /\ response.results = <<"ub", "ua">>
  /\ "organic" \in DOMAIN search_results
  /\ search_results.organic = <<[link |-> "ub", position |-> 1]>>

\* C33: after any sequence of chat commands by any users, each user's
\* recent-message history holds at most 10 messages.
C33_HistoryAtMostTen ==
  \A u \in DOMAIN user_message_history :
    Len(user_message_history[u]) <= HistoryLimit

\* the classifier's output is not '<CATEGORY>: explanation': there is no
\* final response, or its text does not start with a category and a colon
Unparseable(evts) ==
  \/ LastFinal(evts, NoneRec) = NoneRec
  \/ ~Matches(LastFinal(evts, NoneRec).text)

\* C34: dispatch always returns one of the four categories and never raises;
\* whenever the classifier's output cannot be parsed as
\* '<CATEGORY>: explanation', an absent final response included, it returns
\* CHAT.
C34_DispatchReturnsCategory ==
  dispatched # NoneRec =>
    /\ dispatched.raised = "none"
    /\ dispatched.category \in Categories
    /\ Unparseable(events) => dispatched.category = "CHAT"

RECURSIVE Contiguous(_, _)
\* the slices of s, in order, are the characters from .. and nothing else:
\* each starts where the one before ended; the result is where the last ends
\* (-1 when they do not join)
Contiguous(s, from) ==
  IF s = <<>> THEN from
  ELSE IF Head(s).from = from /\ Head(s).to >= from
    THEN Contiguous(Tail(s), Head(s).to)
    ELSE -1

\* C35: send_chunked_message never sends a payload longer than 2000
\* characters; for a message longer than 1900 characters the content chunks,
\* concatenated in sending order, equal the original message exactly; an
\* empty or absent message produces the single notice
\* 'No response generated.'.
C35_ChunksFitAndRebuildMessage ==
  /\ \A k \in 1..Len(sent) : PayloadLen(sent[k]) <= DiscordLimit
  /\ cpc = "done" =>
       IF message = NoneRec \/ message.len = 0
         THEN sent = <<Notice>>
         ELSE Contiguous(TextsOf(sent), 0) = message.len

\* a message of three chunks has been sent to the end
C35_Witness ==
  /\ cpc = "done"
  /\ message # NoneRec
  /\ Len(TextsOf(sent)) = 3
  /\ Len(sent) = 6

\* a listener of the last message direct chat took is still at work
LastPending == \E h \in handlers : h.last

\* C36: in a channel where direct chat mode has been activated, every
\* message that is not from the bot and does not start with '!' is handled
\* exactly once (one history entry for the query, one reply), however many
\* times direct_chat was invoked in that channel.
C36_DirectMessageHandledOnce ==
  /\ last_entries <= 1
  /\ last_replies <= 1
  /\ (last_message /\ ~LastPending) => (last_entries = 1 /\ last_replies = 1)

\* the messages a returned text shows, in the order of its lines
ShownMessages == SelectSeq(context.lines, LAMBDA l : l.kind = "message")

\* the supplied history, an absent one being empty
Supplied == IF message_history = NoneRec THEN <<>> ELSE message_history.list

C38_ClearedUntilNextCommand ==
  \A u \in cleared : HistoryOf(user_message_history, u) = <<>>

====
